---- MODULE Spec2Model ----
(***************************************************************************)
(* Model of the download task registry and scheduler of yt-downloader      *)
(* (internal/download/service.go).  Task objects live on a heap (obj); the *)
(* registry (tasks) holds the ids that are in the s.tasks map.  Every      *)
(* "go s.startTask(task)" creates one entry of runs; a run keeps the       *)
(* pointer to its task object, so it goes on mutating a task that was      *)
(* removed from the registry.  Each action is one critical section of the  *)
(* code (tasksMutex) together with the notifyUpdate call that follows it.  *)
(* Spec tracks the scheduling state (status, stop modes, active count) and *)
(* the task fields the API calls read or reset; the smoothing timer and    *)
(* its buffers are private to the progress layer: Spec leaves them idle,    *)
(* SpecSmooth runs the same actions together with the smoothing layer.     *)
(***************************************************************************)
EXTENDS Integers, Sequences, FiniteSets, TLC

\* ---- bounds of the model ----
MaxTasks == 2
MaxRuns == 2
MaxCalls == 3
MaxParallelInit == 2

\* ---- input domains ----
URLs == {"u1", "u2"}
TaskIds == 1..MaxTasks

VARIABLES
    obj,          \* heap of DownloadTask objects, in order of creation
    tasks,        \* s.tasks: ids present in the registry map
    stopModes,    \* s.stopModes: id -> "Pause" | "Stop" (absent = no entry)
    activeCount,  \* s.activeCount
    maxParallel,  \* s.maxParallel
    runs,         \* the running "go s.startTask(task)" goroutines, oldest first
    spawned,      \* how many startTask goroutines were ever started
    orphans,      \* tasks with a stop-monitor that outlived its startTask
    calls,        \* how many API calls were made
    sink,         \* ids passed to notifyUpdate by the last step, in order
    ret,          \* the last step: operation, task id, error returned
    buf,          \* s.smoothingState: id -> buffered (speed, percent) samples
    timers,       \* id -> the pending time.AfterFunc timers and what state.timer holds
    ticks,        \* updateSmoothedUI callbacks that fired and have not returned
    pl,           \* heap of Playlist objects (built by the parser, held by the UI)
    playlists,    \* s.playlists: ids present in the playlist registry
    playlistQueue,        \* s.playlistQueue: the buffered channel, oldest first
    maxPlaylistParallel,  \* s.maxPlaylistParallel
    procs,        \* the running "go s.processPlaylist(playlist)" goroutines
    vids,         \* the running downloadPlaylistVideo goroutines of the chunks
    pmons,        \* the task pollers started by downloadPlaylistVideo
    pspawned,     \* how many processPlaylist goroutines were ever started
    ctasks,       \* compress.Service.tasks: the compression tasks, oldest first
    cruns,        \* the "go s.startCompression(task)" goroutine of each task
    outputs,      \* the output paths at which a file exists on disk
    progressState, \* s.progressState: id -> the last raw sample (bytes, time)
    prefs         \* the stored preference "max_parallel_downloads" (0 = not set)

vars == <<obj, tasks, stopModes, activeCount, maxParallel, runs, spawned, orphans, calls, sink, ret, buf, timers, ticks, pl, playlists, playlistQueue, maxPlaylistParallel, procs, vids, pmons, pspawned, ctasks, cruns, outputs, progressState, prefs>>

\* the state of the progress smoothing layer
smoothing == <<buf, timers, ticks>>

\* the state of the playlist coordinator
playlisting ==
    <<pl, playlists, playlistQueue, maxPlaylistParallel, procs, vids, pmons, pspawned>>

\* the state of the compression service and of the files it writes
compressing == <<ctasks, cruns, outputs>>

\* ---- model.TaskStatus ----
TaskStatusPending == "Pending"
TaskStatusStarting == "Starting"
TaskStatusDownloading == "Downloading"
TaskStatusStopping == "Stopping"
TaskStatusPaused == "Paused"
TaskStatusStopped == "Stopped"
TaskStatusCompleted == "Completed"
TaskStatusError == "Error"

IsActive(ts) ==
    ts = TaskStatusStarting \/ ts = TaskStatusDownloading \/ ts = TaskStatusStopping

IsFinished(ts) ==
    ts = TaskStatusCompleted \/ ts = TaskStatusStopped \/ ts = TaskStatusError

\* ---- StopMode ----
StopModePause == "Pause"
StopModeStop == "Stop"

\* parseYouTubeError: every engine error maps to a non-empty message
parseYouTubeError(e) == IF e = "" THEN "" ELSE "msg:" \o e

\* the task literal built by AddTask
NewTask(u) ==
    [url |-> u, status |-> TaskStatusPending, progress |-> 0, percent |-> 0,
     eta |-> -1, lastError |-> "", speed |-> "", outputPath |-> ""]

\* a run of startTask: its task pointer, its position, whether its context is
\* cancelled, the state of its stop-monitor goroutine, and (history) req: the
\* last Stop/Pause/Remove request issued on its task since the run was
\* promoted, or "shared" when another run of the same task exists beside it
NewRun(t) ==
    [task |-> t, pc |-> "spawned", cancelled |-> FALSE, mon |-> "none", req |-> "none"]

\* delete(s.stopModes, id)
DeleteMode(m, id) == [k \in (DOMAIN m) \ {id} |-> m[k]]
\* s.stopModes[id] = mode
SetMode(m, id, mode) == [k \in (DOMAIN m) \cup {id} |-> IF k = id THEN mode ELSE m[k]]

NoRet == [op |-> "none", id |-> 0, err |-> ""]

\* ---- model.PlaylistStatus, model.VideoStatus ----
PlaylistStatusParsing == "parsing"
PlaylistStatusReady == "ready"
PlaylistStatusDownloading == "downloading"
PlaylistStatusCompleted == "completed"
PlaylistStatusError == "error"

VideoStatusPending == "pending"
VideoStatusDownloading == "downloading"
VideoStatusCompleted == "completed"
VideoStatusError == "error"
VideoStatusSkipped == "skipped"

\* capacity of s.playlistQueue and the initial chunk size (NewService)
QueueCap == 10
DefaultPlaylistParallel == 3

\* playlists the UI may hand to the service: one more than the queue holds
PlaylistIds == 1..(QueueCap + 1)

\* a video entry as the parser builds it; the engine-native id of a video is
\* determined by its URL.  Of an entry the model keeps what the coordinator
\* decides on: its id, URL and status.
NewVideo(u) == [id |-> u, url |-> u, status |-> VideoStatusPending]

\* the playlists of the model, as the parser returns them: two videos; the
\* same video twice; no video; all others hold one video
NewPlaylist(p) ==
    CASE p = 1 -> [status |-> PlaylistStatusReady,
                   videos |-> <<NewVideo("u1"), NewVideo("u2")>>]
      [] p = 2 -> [status |-> PlaylistStatusReady,
                   videos |-> <<NewVideo("u1"), NewVideo("u1")>>]
      [] p = 3 -> [status |-> PlaylistStatusReady, videos |-> <<>>]
      [] OTHER -> [status |-> PlaylistStatusReady, videos |-> <<NewVideo("u2")>>]

Init ==
    /\ obj = <<>>
    /\ tasks = {}
    /\ stopModes = <<>>
    /\ activeCount = 0
    /\ maxParallel \in 1..MaxParallelInit
    /\ runs = <<>>
    /\ spawned = 0
    /\ orphans = {}
    /\ calls = 0
    /\ sink = <<>>
    /\ ret = NoRet
    /\ buf = <<>>
    /\ timers = <<>>
    /\ ticks = {}
    /\ pl = [p \in PlaylistIds |-> NewPlaylist(p)]
    /\ playlists = {}
    /\ playlistQueue = <<>>
    /\ maxPlaylistParallel = DefaultPlaylistParallel
    /\ procs = {}
    /\ vids = {}
    /\ pmons = {}
    /\ pspawned = 0
    /\ ctasks = <<>>
    /\ cruns = <<>>
    /\ outputs = {}
    /\ progressState = <<>>
    /\ prefs = 0

\* "if s.activeCount < s.maxParallel { go s.startTask(task) }"
\* "go s.startTask(task)"
Go(rs, t) ==
    LET shared == \E r \in DOMAIN rs : rs[r].task = t IN
    /\ spawned < MaxRuns
    /\ runs' = Append([r \in DOMAIN rs |->
                          IF rs[r].task = t THEN [rs[r] EXCEPT !.req = "shared"]
                          ELSE rs[r]],
                      [NewRun(t) EXCEPT !.req = IF shared THEN "shared" ELSE "none"])
    /\ spawned' = spawned + 1

TryStart(rs, t) ==
    IF activeCount < maxParallel
    THEN Go(rs, t)
    ELSE runs' = rs /\ UNCHANGED spawned

\* ---- Service.AddTask ----
\* mutant: the duplicate check forgets the status of the older task
AddTaskDup_AnyStatus(u) ==
    \E t \in tasks : obj[t].url = u

AddTaskDup(u) ==
    \E t \in tasks : obj[t].url = u /\ ~IsFinished(obj[t].status)

AddTask(u) ==
    IF AddTaskDup(u)
    THEN /\ ret' = [op |-> "AddTask", id |-> 0, err |-> "duplicate", url |-> u]
         /\ sink' = <<>>
         /\ UNCHANGED <<obj, tasks, stopModes, activeCount, maxParallel, runs,
                        spawned, orphans>>
    ELSE /\ Len(obj) < MaxTasks
         /\ obj' = Append(obj, NewTask(u))
         /\ tasks' = tasks \cup {Len(obj) + 1}
         /\ TryStart(runs, Len(obj) + 1)
         /\ ret' = [op |-> "AddTask", id |-> Len(obj) + 1, err |-> "", url |-> u]
         /\ sink' = <<>>
         /\ UNCHANGED <<stopModes, activeCount, maxParallel, orphans>>

\* a call on an id that is not in the registry: "task not found"
NotFound(op, id) ==
    /\ id \notin tasks
    /\ ret' = [op |-> op, id |-> id, err |-> "not found"]
    /\ sink' = <<>>
    /\ UNCHANGED <<obj, tasks, stopModes, activeCount, maxParallel, runs, spawned, orphans>>

\* a run that has been promoted and has not yet written its final status
Live(run) == run.pc \in {"starting", "resolve", "resolved", "download"}

\* history only: remember on the promoted runs of task id the request made on
\* it ("stop", "pause": on an active task; "removed"; "other": on an inactive one)
MarkReq(rs, id, q) ==
    [r \in DOMAIN rs |->
        IF rs[r].task = id /\ Live(rs[r]) THEN [rs[r] EXCEPT !.req = q] ELSE rs[r]]

\* ---- Service.StopTask ----
\* mutant: every task that is not active is resolved to Stopped
StopsImmediately_AnyInactive(ts) ==
    ~IsActive(ts)

\* lines 347-349: no background work to cancel
StopsImmediately(ts) ==
    ts = TaskStatusPending \/ ts = TaskStatusPaused \/ ts = TaskStatusError

\* mutant: the error message survives the stop
StoppedNow_KeepsError(o, id) ==
    [o EXCEPT ![id].status = TaskStatusStopped]

\* lines 351-352
StoppedNow(o, id) ==
    [o EXCEPT ![id].status = TaskStatusStopped, ![id].lastError = ""]

StopTask(id) ==
    \/ NotFound("StopTask", id)
    \/ /\ id \in tasks
       /\ ret' = [op |-> "StopTask", id |-> id, err |-> ""]
       /\ runs' = MarkReq(runs, id, IF IsActive(obj[id].status) THEN "stop" ELSE "other")
       /\ UNCHANGED <<tasks, activeCount, maxParallel, spawned, orphans>>
       /\ IF StopsImmediately(obj[id].status)
          THEN /\ obj' = StoppedNow(obj, id)
               /\ stopModes' = DeleteMode(stopModes, id)
               /\ sink' = <<id>>
          ELSE IF ~IsActive(obj[id].status)
          THEN /\ sink' = <<>>
               /\ UNCHANGED <<obj, stopModes>>
          ELSE /\ obj' = [obj EXCEPT ![id].status = TaskStatusStopping]
               /\ stopModes' = SetMode(stopModes, id, StopModeStop)
               /\ sink' = <<id>>

\* ---- Service.PauseTask ----
PauseTask(id) ==
    \/ NotFound("PauseTask", id)
    \/ /\ id \in tasks
       /\ ret' = [op |-> "PauseTask", id |-> id, err |-> ""]
       /\ runs' = MarkReq(runs, id, IF IsActive(obj[id].status) THEN "pause" ELSE "other")
       /\ UNCHANGED <<tasks, activeCount, maxParallel, spawned, orphans>>
       /\ IF ~IsActive(obj[id].status)
          THEN /\ sink' = <<>>
               /\ UNCHANGED <<obj, stopModes>>
          ELSE /\ obj' = [obj EXCEPT ![id].status = TaskStatusStopping]
               /\ stopModes' = SetMode(stopModes, id, StopModePause)
               /\ sink' = <<id>>

\* ---- Service.ResumeTask ----
\* line 408
CanResume(ts) == ts = TaskStatusPaused

\* mutant: resume resets the task the way restart does
ResumeReset_AsRestart(o, id) ==
    [o EXCEPT ![id].status = TaskStatusPending,
              ![id].progress = 0,
              ![id].percent = 0]

\* lines 412-414: only the status (and the start time) is reset
ResumeReset(o, id) == [o EXCEPT ![id].status = TaskStatusPending]

ResumeTask(id) ==
    \/ NotFound("ResumeTask", id)
    \/ /\ id \in tasks
       /\ IF ~CanResume(obj[id].status)
          THEN /\ ret' = [op |-> "ResumeTask", id |-> id, err |-> "not paused"]
               /\ sink' = <<>>
               /\ UNCHANGED <<obj, tasks, stopModes, activeCount, maxParallel, runs, spawned, orphans>>
          ELSE /\ obj' = ResumeReset(obj, id)
               /\ sink' = <<id>>
               /\ TryStart(runs, id)
               /\ ret' = [op |-> "ResumeTask", id |-> id, err |-> ""]
               /\ UNCHANGED <<tasks, stopModes, activeCount, maxParallel, orphans>>

\* ---- Service.RestartTask ----
\* mutant: a Pending task cannot be restarted
CanRestart_NotPending(ts) ==
    ts = TaskStatusError \/ ts = TaskStatusStopped \/ ts = TaskStatusPaused

\* lines 436-439
CanRestart(ts) ==
    ts = TaskStatusError \/ ts = TaskStatusStopped \/ ts = TaskStatusPaused
        \/ ts = TaskStatusPending

\* lines 443-451
RestartReset(o, id) ==
    [o EXCEPT ![id].status = TaskStatusPending,
              ![id].progress = 0,
              ![id].percent = 0,
              ![id].lastError = "",
              ![id].speed = "",
              ![id].eta = -1]

RestartTask(id) ==
    \/ NotFound("RestartTask", id)
    \/ /\ id \in tasks
       /\ IF ~CanRestart(obj[id].status)
          THEN /\ ret' = [op |-> "RestartTask", id |-> id, err |-> "cannot restart"]
               /\ sink' = <<>>
               /\ UNCHANGED <<obj, tasks, stopModes, activeCount, maxParallel, runs, spawned, orphans>>
          ELSE /\ obj' = RestartReset(obj, id)
               /\ sink' = <<id>>
               /\ TryStart(runs, id)
               /\ ret' = [op |-> "RestartTask", id |-> id, err |-> ""]
               /\ UNCHANGED <<tasks, stopModes, activeCount, maxParallel, orphans>>

\* ---- Service.RemoveTask ----
\* mutant: the task is marked Stopping but its registry entry is kept
RemoveTask_KeepsEntry(id) ==
    \/ NotFound("RemoveTask", id)
    \/ /\ id \in tasks
       /\ IF IsActive(obj[id].status)
          THEN /\ obj' = [obj EXCEPT ![id].status = TaskStatusStopping]
               /\ sink' = <<id>>
          ELSE /\ sink' = <<>>
               /\ UNCHANGED obj
       /\ runs' = MarkReq(runs, id, "removed")
       /\ ret' = [op |-> "RemoveTask", id |-> id, err |-> ""]
       /\ UNCHANGED <<tasks, stopModes, activeCount, maxParallel, spawned, orphans>>

RemoveTask(id) ==
    \/ NotFound("RemoveTask", id)
    \/ /\ id \in tasks
       /\ IF IsActive(obj[id].status)
          THEN /\ obj' = [obj EXCEPT ![id].status = TaskStatusStopping]
               /\ sink' = <<id>>
          ELSE /\ sink' = <<>>
               /\ UNCHANGED obj
       /\ tasks' = tasks \ {id}
       /\ runs' = MarkReq(runs, id, "removed")
       /\ ret' = [op |-> "RemoveTask", id |-> id, err |-> ""]
       /\ UNCHANGED <<stopModes, activeCount, maxParallel, spawned, orphans>>


\* ---- Service.startTask, one action per critical section ----
Step(op, t, e) == [op |-> op, id |-> t, err |-> e]

\* lines 487-492: activeCount++, status = Starting, notify
StartTaskEnter(r) ==
    LET t == runs[r].task IN
    /\ runs[r].pc = "spawned"
    /\ activeCount' = activeCount + 1
    /\ obj' = [obj EXCEPT ![t].status = TaskStatusStarting]
    /\ runs' = [runs EXCEPT ![r].pc = "starting"]
    /\ sink' = <<t>>
    /\ ret' = Step("startTask.enter", t, "")
    /\ UNCHANGED <<tasks, stopModes, maxParallel, spawned, orphans>>

\* lines 503-535: status = Downloading, notify, context and stop-monitor created
StartTaskDownloading(r) ==
    LET t == runs[r].task IN
    /\ runs[r].pc = "starting"
    /\ obj' = [obj EXCEPT ![t].status = TaskStatusDownloading]
    /\ runs' = [runs EXCEPT ![r].pc = "resolve", ![r].mon = "poll"]
    /\ sink' = <<t>>
    /\ ret' = Step("startTask.downloading", t, "")
    /\ UNCHANGED <<tasks, stopModes, activeCount, maxParallel, spawned, orphans>>

\* lines 519-535: an iteration of the stop-monitor of a running startTask that
\* leaves its loop (an iteration that only sleeps changes nothing)
StopMonitor(r) ==
    LET t == runs[r].task IN
    /\ runs[r].mon = "poll"
    /\ \/ /\ obj[t].status = TaskStatusStopping
          /\ runs' = [runs EXCEPT ![r].cancelled = TRUE, ![r].mon = "exit"]
       \/ /\ IsFinished(obj[t].status)
          /\ runs' = [runs EXCEPT ![r].mon = "exit"]
    /\ sink' = <<>>
    /\ ret' = Step("monitor", t, "")
    /\ UNCHANGED <<obj, tasks, stopModes, activeCount, maxParallel, spawned, orphans>>

\* lines 519-535: the same iteration of a monitor whose startTask has returned
\* (its cancel() then acts on a context nobody waits on)
OrphanMonitor(t) ==
    /\ t \in orphans
    /\ obj[t].status = TaskStatusStopping \/ IsFinished(obj[t].status)
    /\ orphans' = orphans \ {t}
    /\ sink' = <<>>
    /\ ret' = Step("monitor", t, "")
    /\ UNCHANGED <<obj, tasks, stopModes, activeCount, maxParallel, runs, spawned>>

\* what an engine call made with the run's context may return: an error at
\* any time (a genuine failure, or the cancellation), success only while the
\* context is not cancelled
EngineResults(run) == IF run.cancelled THEN {"err"} ELSE {"ok", "err"}

\* lines 552-564: d.ResolveURL returns
StartTaskResolve(r) ==
    LET t == runs[r].task IN
    /\ runs[r].pc = "resolve"
    /\ \E res \in EngineResults(runs[r]) :
        IF res = "err"
        THEN /\ obj' = [obj EXCEPT ![t].status = TaskStatusError,
                                   ![t].lastError = parseYouTubeError(res)]
             /\ runs' = [runs EXCEPT ![r].pc = "defer"]
             /\ sink' = <<t>>
             /\ ret' = Step("startTask.resolve", t, res)
        ELSE /\ runs' = [runs EXCEPT ![r].pc = "resolved"]
             /\ sink' = <<>>
             /\ ret' = Step("startTask.resolve", t, "")
             /\ UNCHANGED obj
    /\ UNCHANGED <<tasks, stopModes, activeCount, maxParallel, spawned, orphans>>

\* lines 566-602: output path computed; short-circuit when the file exists
StartTaskOutputPath(r) ==
    LET t == runs[r].task IN
    /\ runs[r].pc = "resolved"
    /\ \E fileExists \in BOOLEAN :
        IF fileExists
        THEN /\ obj' = [obj EXCEPT ![t].status = TaskStatusCompleted,
                                   ![t].progress = 100,
                                   ![t].percent = 100,
                                   ![t].outputPath = "path"]
             /\ runs' = [runs EXCEPT ![r].pc = "defer"]
             /\ ret' = Step("startTask.exists", t, "")
        ELSE /\ obj' = [obj EXCEPT ![t].outputPath = "path"]
             /\ runs' = [runs EXCEPT ![r].pc = "download"]
             /\ ret' = Step("startTask.path", t, "")
    /\ sink' = <<t>>
    /\ UNCHANGED <<tasks, stopModes, activeCount, maxParallel, spawned, orphans>>

\* percent of the download the engine may report to its progress callback
Samples == {50}

\* lines 670-683 (updateTaskProgressFromNew, called by the engine during
\* d.Download): task.Progress follows the raw sample; no notifyUpdate here
ProgressReported(r) ==
    LET t == runs[r].task IN
    /\ runs[r].pc = "download"
    /\ \E p \in Samples :
        /\ obj[t].progress # p
        /\ obj' = [obj EXCEPT ![t].progress = p]
    /\ sink' = <<>>
    /\ ret' = Step("progress", t, "")
    /\ UNCHANGED <<tasks, stopModes, activeCount, maxParallel, runs, spawned, orphans>>

\* lines 609-628: the status a failed d.Download ends in
FinalStatusOnError(run, modes) ==
    IF run.task \in DOMAIN modes
    THEN (IF modes[run.task] = StopModePause THEN TaskStatusPaused ELSE TaskStatusStopped)
    ELSE IF run.cancelled
    THEN TaskStatusStopped
    ELSE TaskStatusError

\* lines 604-666: d.Download returns, final status, notify
StartTaskFinish(r) ==
    LET t == runs[r].task IN
    /\ runs[r].pc = "download"
    /\ \E res \in EngineResults(runs[r]) :
        /\ IF res = "err"
           THEN LET st == FinalStatusOnError(runs[r], stopModes) IN
                /\ obj' = [obj EXCEPT ![t].status = st,
                                      ![t].lastError =
                                          IF st = TaskStatusError
                                          THEN parseYouTubeError(res) ELSE @]
                /\ stopModes' = IF st = TaskStatusError THEN stopModes
                                ELSE DeleteMode(stopModes, t)
           ELSE /\ obj' = [obj EXCEPT ![t].status = TaskStatusCompleted,
                                      ![t].progress = 100,
                                      ![t].percent = 100]
                /\ UNCHANGED stopModes
        /\ ret' = Step("startTask.finish", t, IF res = "err" THEN res ELSE "")
    /\ runs' = [runs EXCEPT ![r].pc = "defer"]
    /\ sink' = <<t>>
    /\ UNCHANGED <<tasks, activeCount, maxParallel, spawned, orphans>>

\* a variant whose deferred function skips the decrement for a paused task
StartTaskRelease_PausedKeepsSlot(r) ==
    /\ runs[r].pc = "defer"
    /\ activeCount' = IF obj[runs[r].task].status = TaskStatusPaused
                      THEN activeCount ELSE activeCount - 1
    /\ runs' = [runs EXCEPT ![r].pc = "next"]
    /\ sink' = <<>>
    /\ ret' = Step("startTask.release", runs[r].task, "")
    /\ UNCHANGED <<obj, tasks, stopModes, maxParallel, spawned, orphans>>

\* lines 494-497 (deferred): activeCount--
StartTaskRelease(r) ==
    /\ runs[r].pc = "defer"
    /\ activeCount' = activeCount - 1
    /\ runs' = [runs EXCEPT ![r].pc = "next"]
    /\ sink' = <<>>
    /\ ret' = Step("startTask.release", runs[r].task, "")
    /\ UNCHANGED <<obj, tasks, stopModes, maxParallel, spawned, orphans>>

\* ---- Service.startNextPendingTask (called by the deferred function) ----
PendingTasks == {t \in tasks : obj[t].status = TaskStatusPending}

\* the runs without run r, which returns
Without(r) == SubSeq(runs, 1, r - 1) \o SubSeq(runs, r + 1, Len(runs))

\* mutant: the routine returns without looking for a Pending task
startNextPendingTask_NoPromotion(r) ==
    /\ runs[r].pc = "next"
    /\ runs' = Without(r)
    /\ ret' = Step("startNext", 0, "")
    /\ orphans' = IF runs[r].mon = "poll" THEN orphans \cup {runs[r].task} ELSE orphans
    /\ sink' = <<>>
    /\ UNCHANGED <<obj, tasks, stopModes, activeCount, maxParallel, spawned>>

startNextPendingTask(r) ==
    /\ runs[r].pc = "next"
    /\ IF activeCount >= maxParallel \/ PendingTasks = {}
       THEN /\ runs' = Without(r)
            /\ ret' = Step("startNext", 0, "")
            /\ UNCHANGED spawned
       ELSE \E t \in PendingTasks :
                /\ Go(Without(r), t)
                /\ ret' = Step("startNext", t, "")
    /\ orphans' = IF runs[r].mon = "poll" THEN orphans \cup {runs[r].task} ELSE orphans
    /\ sink' = <<>>
    /\ UNCHANGED <<obj, tasks, stopModes, activeCount, maxParallel>>

\* an API call made by the user interface (at most MaxCalls of them)
Call(A) ==
    calls < MaxCalls /\ A /\ calls' = calls + 1
    /\ UNCHANGED <<smoothing, playlisting, compressing, progressState, prefs>>
\* a step of a goroutine of the service
Internal(A) ==
    A /\ UNCHANGED calls /\ UNCHANGED <<smoothing, playlisting, compressing, progressState, prefs>>

Next ==
    \/ \E u \in URLs : Call(AddTask(u))
    \/ \E id \in TaskIds : Call(StopTask(id))
    \/ \E id \in TaskIds : Call(PauseTask(id))
    \/ \E id \in TaskIds : Call(ResumeTask(id))
    \/ \E id \in TaskIds : Call(RestartTask(id))
    \/ \E id \in TaskIds : Call(RemoveTask(id))
    \/ \E r \in DOMAIN runs : Internal(StartTaskEnter(r))
    \/ \E r \in DOMAIN runs : Internal(StartTaskDownloading(r))
    \/ \E r \in DOMAIN runs : Internal(StopMonitor(r))
    \/ \E t \in TaskIds : Internal(OrphanMonitor(t))
    \/ \E r \in DOMAIN runs : Internal(StartTaskResolve(r))
    \/ \E r \in DOMAIN runs : Internal(StartTaskOutputPath(r))
    \/ \E r \in DOMAIN runs : Internal(ProgressReported(r))
    \/ \E r \in DOMAIN runs : Internal(StartTaskFinish(r))
    \/ \E r \in DOMAIN runs : Internal(StartTaskRelease(r))
    \/ \E r \in DOMAIN runs : Internal(startNextPendingTask(r))

Spec == Init /\ [][Next]_vars

\* the steps of the startTask goroutines
InternalNext ==
    \/ \E r \in DOMAIN runs : Internal(StartTaskEnter(r))
    \/ \E r \in DOMAIN runs : Internal(StartTaskDownloading(r))
    \/ \E r \in DOMAIN runs : Internal(StopMonitor(r))
    \/ \E r \in DOMAIN runs : Internal(StartTaskResolve(r))
    \/ \E r \in DOMAIN runs : Internal(StartTaskOutputPath(r))
    \/ \E r \in DOMAIN runs : Internal(StartTaskFinish(r))
    \/ \E r \in DOMAIN runs : Internal(StartTaskRelease(r))
    \/ \E r \in DOMAIN runs : Internal(startNextPendingTask(r))

\* the Go scheduler runs every started goroutine and every engine call
\* returns: the goroutines are never all left waiting.  API calls are up to
\* the user and carry no fairness.
SpecFair == Spec /\ WF_vars(InternalNext)

(***************************************************************************)
(* Progress smoothing layer: the per-task measurement buffers and the      *)
(* one-second timer that publishes their mean.  Speeds are in tenths of    *)
(* MB/s, progress in percent.                                              *)
(***************************************************************************)
MaxCallsSmooth == 2
MaxTasksSmooth == 1
MaxSamples == 1

\* speeds (tenths of MB/s) the delta computation of lines 687-696 may yield
Speeds == {0, 20}

\* SmoothingState.addMeasurement: append, keep the last 10
BufferCap == 10

addMeasurement(b, speed, percent) ==
    LET a == Append(b, [speed |-> speed, percent |-> percent]) IN
    IF Len(a) > BufferCap THEN SubSeq(a, 2, Len(a)) ELSE a

RECURSIVE SumSpeed(_)
SumSpeed(b) == IF b = <<>> THEN 0 ELSE b[1].speed + SumSpeed(Tail(b))

RECURSIVE SumPercent(_)
SumPercent(b) == IF b = <<>> THEN 0 ELSE b[1].percent + SumPercent(Tail(b))

\* fmt.Sprintf("%.1fMB/s", avgSpeed) of a mean of sum/n tenths, rounded to
\* the nearest tenth
FormatSpeed(sum, n) ==
    LET tenths == (2 * sum + n) \div (2 * n) IN
    ToString(tenths \div 10) \o "." \o ToString(tenths % 10) \o "MB/s"

\* a variant whose percent is the mean rounded up
calculateSmoothedValues_RoundsUp(b) ==
    IF Len(b) = 0
    THEN [speed |-> "", percent |-> 0]
    ELSE [speed |-> IF SumSpeed(b) > 0 THEN FormatSpeed(SumSpeed(b), Len(b)) ELSE "",
          percent |-> (SumPercent(b) + Len(b) - 1) \div Len(b)]

\* SmoothingState.calculateSmoothedValues
calculateSmoothedValues(b) ==
    IF Len(b) = 0
    THEN [speed |-> "", percent |-> 0]
    ELSE [speed |-> IF SumSpeed(b) > 0 THEN FormatSpeed(SumSpeed(b), Len(b)) ELSE "",
          percent |-> SumPercent(b) \div Len(b)]

\* the timers of a SmoothingState: how many time.AfterFunc timers are pending,
\* and whether state.timer is nil, a pending timer ("armed") or a timer that
\* has fired or was stopped ("spent")
NoTimer == [armed |-> 0, timer |-> "nil"]
TimerOf(t) == IF t \in DOMAIN timers THEN timers[t] ELSE NoTimer

\* "state.timer.Stop()": the timer state.timer holds is withdrawn if pending
StopTimer(x) ==
    IF x.timer = "armed" THEN [armed |-> x.armed - 1, timer |-> "spent"] ELSE x

\* "state.timer = time.AfterFunc(time.Second, ...)"
ArmTimer(x) == [armed |-> x.armed + 1, timer |-> "armed"]

\* the smoothing timer of t is pending
Armed(t) == TimerOf(t).armed > 0

\* a variant that arms the new timer without stopping the old one
startSmoothingTimer_NoStop(t) ==
    /\ buf' = IF t \in DOMAIN buf THEN buf
              ELSE [k \in (DOMAIN buf) \cup {t} |-> IF k = t THEN <<>> ELSE buf[k]]
    /\ timers' = SetMode(timers, t, ArmTimer(TimerOf(t)))

\* Service.startSmoothingTimer: the state is created when missing, the timer
\* state.timer holds is stopped and a new one armed
startSmoothingTimer(t) ==
    /\ buf' = IF t \in DOMAIN buf THEN buf
              ELSE [k \in (DOMAIN buf) \cup {t} |-> IF k = t THEN <<>> ELSE buf[k]]
    /\ timers' = SetMode(timers, t, ArmTimer(StopTimer(TimerOf(t))))

\* Service.stopSmoothingTimer: the timer state.timer holds is stopped and
\* state.timer set to nil; a callback that has already fired goes on
stopSmoothingTimer(t) ==
    timers' = IF t \in DOMAIN timers /\ timers[t].timer # "nil"
              THEN [timers EXCEPT ![t] = [armed |-> StopTimer(@).armed, timer |-> "nil"]]
              ELSE timers

\* line 510 follows the Downloading update of startTask
StartTaskDownloadingSmooth(r) ==
    /\ StartTaskDownloading(r)
    /\ startSmoothingTimer(runs[r].task)
    /\ UNCHANGED <<calls, ticks, playlisting, compressing, progressState, prefs>>

\* line 664 follows the final status of startTask
StartTaskFinishSmooth(r) ==
    /\ StartTaskFinish(r)
    /\ stopSmoothingTimer(runs[r].task)
    /\ UNCHANGED <<calls, buf, ticks, playlisting, compressing, progressState, prefs>>

\* Service.updateTaskProgressFromNew (the engine's progress callback during
\* d.Download): task.Progress follows the raw sample, the sample is buffered;
\* the ETA block reads the snapshot this call has just stored (lines 698-701),
\* so its byte delta is 0 and the ETA is left alone; no notifyUpdate
updateTaskProgressFromNew(r) ==
    LET t == runs[r].task IN
    /\ runs[r].pc = "download"
    /\ t \in DOMAIN buf => Len(buf[t]) < MaxSamples
    /\ \E p \in Samples : \E sp \in Speeds :
        /\ obj' = [obj EXCEPT ![t].progress = p]
        /\ buf' = IF t \in DOMAIN buf
                  THEN [buf EXCEPT ![t] = addMeasurement(@, sp, p)]
                  ELSE buf
    /\ sink' = <<>>
    /\ ret' = Step("progress", t, "")
    /\ UNCHANGED <<tasks, stopModes, activeCount, maxParallel, runs, spawned,
                   orphans, calls, timers, ticks, playlisting, compressing, progressState, prefs>>

\* ---- Service.updateSmoothedUI, the timer callback ----
\* lines 183-191: the timer fires; the smoothed values are computed
TimerFires(t) ==
    /\ Armed(t)
    /\ \E held \in BOOLEAN :
        /\ held => timers[t].timer = "armed"
        /\ ~held => timers[t].armed > (IF timers[t].timer = "armed" THEN 1 ELSE 0)
        /\ timers' = [timers EXCEPT ![t] =
                         [armed |-> @.armed - 1,
                          timer |-> IF held THEN "spent" ELSE @.timer]]
    /\ LET v == calculateSmoothedValues(buf[t]) IN
       ticks' = ticks \cup {[task |-> t, pc |-> "publish",
                             speed |-> v.speed, percent |-> v.percent]}
    /\ sink' = <<>>
    /\ ret' = Step("timer.fire", t, "")
    /\ UNCHANGED <<obj, tasks, stopModes, activeCount, maxParallel, runs, spawned,
                   orphans, calls, buf, playlisting, compressing, progressState, prefs>>

\* the callback k moves on to position pc
Moved(k, pc) == (ticks \ {k}) \cup {[k EXCEPT !.pc = pc]}

\* lines 194-206: the values are published on the task if it is registered
TimerPublishes(k) ==
    LET t == k.task IN
    /\ k.pc = "publish"
    /\ IF t \in tasks
       THEN /\ obj' = [obj EXCEPT
                          ![t].speed = IF k.speed # "" THEN k.speed ELSE @,
                          ![t].percent = IF k.percent > 0 THEN k.percent ELSE @,
                          ![t].progress = IF k.percent > 0 THEN k.percent ELSE @]
            /\ sink' = <<t>>
       ELSE /\ sink' = <<>>
            /\ UNCHANGED obj
    /\ ticks' = Moved(k, "clear")
    /\ ret' = Step("timer.publish", t, "")
    /\ UNCHANGED <<tasks, stopModes, activeCount, maxParallel, runs, spawned,
                   orphans, calls, buf, timers, playlisting, compressing, progressState, prefs>>

\* line 209: state.clearMeasurements()
TimerClears(k) ==
    /\ k.pc = "clear"
    /\ buf' = [buf EXCEPT ![k.task] = <<>>]
    /\ ticks' = Moved(k, "rearm")
    /\ sink' = <<>>
    /\ ret' = Step("timer.clear", k.task, "")
    /\ UNCHANGED <<obj, tasks, stopModes, activeCount, maxParallel, runs, spawned,
                   orphans, calls, timers, playlisting, compressing, progressState, prefs>>

\* lines 211-215: the callback looks the task up and reads its status; it
\* goes on to arm the timer if the task is registered and Downloading and
\* returns otherwise
TimerChecks(k) ==
    LET t == k.task IN
    /\ k.pc = "rearm"
    /\ ticks' = IF t \in tasks /\ obj[t].status = TaskStatusDownloading
                THEN Moved(k, "arm") ELSE ticks \ {k}
    /\ sink' = <<>>
    /\ ret' = Step("timer.check", t, "")
    /\ UNCHANGED <<obj, tasks, stopModes, activeCount, maxParallel, runs, spawned,
                   orphans, calls, buf, timers, playlisting, compressing, progressState, prefs>>

\* lines 216-224: under state.mutex the timer state.timer holds is stopped
\* and the next one armed
TimerRearms(k) ==
    LET t == k.task IN
    /\ k.pc = "arm"
    /\ timers' = SetMode(timers, t, ArmTimer(StopTimer(TimerOf(t))))
    /\ ticks' = ticks \ {k}
    /\ sink' = <<>>
    /\ ret' = Step("timer.rearm", t, "")
    /\ UNCHANGED <<obj, tasks, stopModes, activeCount, maxParallel, runs, spawned,
                   orphans, calls, buf, playlisting, compressing, progressState, prefs>>

\* an API call while the smoothing layer runs (at most MaxCallsSmooth of them)
CallSmooth(A) ==
    calls < MaxCallsSmooth /\ A /\ calls' = calls + 1
    /\ UNCHANGED <<smoothing, playlisting, compressing, progressState, prefs>>

NextSmooth ==
    \/ \E u \in URLs : Len(obj) < MaxTasksSmooth /\ CallSmooth(AddTask(u))
    \/ \E id \in TaskIds : CallSmooth(StopTask(id))
    \/ \E id \in TaskIds : CallSmooth(PauseTask(id))
    \/ \E id \in TaskIds : CallSmooth(ResumeTask(id))
    \/ \E id \in TaskIds : CallSmooth(RestartTask(id))
    \/ \E id \in TaskIds : CallSmooth(RemoveTask(id))
    \/ \E r \in DOMAIN runs : Internal(StartTaskEnter(r))
    \/ \E r \in DOMAIN runs : StartTaskDownloadingSmooth(r)
    \/ \E r \in DOMAIN runs : Internal(StopMonitor(r))
    \/ \E t \in TaskIds : Internal(OrphanMonitor(t))
    \/ \E r \in DOMAIN runs : Internal(StartTaskResolve(r))
    \/ \E r \in DOMAIN runs : Internal(StartTaskOutputPath(r))
    \/ \E r \in DOMAIN runs : updateTaskProgressFromNew(r)
    \/ \E r \in DOMAIN runs : StartTaskFinishSmooth(r)
    \/ \E r \in DOMAIN runs : Internal(StartTaskRelease(r))
    \/ \E r \in DOMAIN runs : Internal(startNextPendingTask(r))
    \/ \E t \in TaskIds : TimerFires(t)
    \/ \E k \in ticks : TimerPublishes(k)
    \/ \E k \in ticks : TimerClears(k)
    \/ \E k \in ticks : TimerChecks(k)
    \/ \E k \in ticks : TimerRearms(k)

\* the service after NewService(dir, MaxParallelInit)
InitSmooth == Init /\ maxParallel = MaxParallelInit

SpecSmooth == InitSmooth /\ [][NextSmooth]_vars

(***************************************************************************)
(* Playlist coordinator.  A playlist keeps pointers to its video entries:  *)
(* a video goroutine and its poller hold the index of their entry, while   *)
(* the Update* methods of Playlist look the entry up by video id and       *)
(* change the first one that matches.  The coordinator reads of a task its *)
(* status only, so the steps of the download side that change nothing but  *)
(* task.Progress (the engine's progress callback) or the set of leaked      *)
(* stop-monitors are left out of NextPlaylist.                              *)
(***************************************************************************)
MaxProcs == 1
MaxCallsPlaylist == 3
MaxChunk == 1

\* the playlists the calls of NextPlaylist are made on
Targets == {1, 2, 3}

\* the download side of the service
scheduling == <<obj, tasks, stopModes, activeCount, maxParallel, runs, spawned, orphans>>

\* index of the first video with this id (0: none)
FirstWith(vs, id) ==
    IF \E i \in DOMAIN vs : vs[i].id = id
    THEN CHOOSE i \in DOMAIN vs : vs[i].id = id /\ \A j \in 1..(i - 1) : vs[j].id # id
    ELSE 0

\* Playlist.UpdateVideoStatus
UpdateVideoStatus(vs, id, st) ==
    IF FirstWith(vs, id) = 0 THEN vs
    ELSE [vs EXCEPT ![FirstWith(vs, id)].status = st]

\* Playlist.GetPendingVideos: the entries (their indices) that are pending
RECURSIVE PendingFrom(_, _)
PendingFrom(vs, i) ==
    IF i > Len(vs) THEN <<>>
    ELSE IF vs[i].status = VideoStatusPending
    THEN <<i>> \o PendingFrom(vs, i + 1)
    ELSE PendingFrom(vs, i + 1)

GetPendingVideos(vs) == PendingFrom(vs, 1)

\* mutant: every playlist that has a video may be downloaded
IsReadyForDownload_AnyStatus(P) == Len(P.videos) > 0

\* Playlist.IsReadyForDownload (TotalVideos is kept equal to len(Videos))
IsReadyForDownload(P) == P.status = PlaylistStatusReady /\ Len(P.videos) > 0

\* the playlists that AddPlaylist registered with the queue full: they are in
\* no queue slot and their routine was started by AddPlaylist itself
Overflowed ==
    {p \in playlists : \A i \in DOMAIN playlistQueue : playlistQueue[i] # p}

\* "go s.processPlaylist(playlist)"; MaxProcs bounds the routines started
\* besides those of the overflowed playlists
SpawnProc(p) ==
    /\ pspawned - Cardinality(Overflowed) < MaxProcs
    /\ procs' = procs \cup {[n |-> pspawned + 1, pl |-> p, pc |-> "begin",
                             pending |-> <<>>, i |-> 0, chunk |-> 0]}
    /\ pspawned' = pspawned + 1

\* ---- Service.AddPlaylist ----
\* mutant: a playlist that finds the queue full is registered and left alone
QueueHasRoom_Always(q) == TRUE

\* "case s.playlistQueue <- playlist:" succeeds
QueueHasRoom(q) == Len(q) < QueueCap

AddPlaylist(p) ==
    /\ IF p \in playlists
       THEN /\ ret' = Step("AddPlaylist", p, "exists")
            /\ UNCHANGED <<playlists, playlistQueue, procs, pspawned>>
       ELSE /\ playlists' = playlists \cup {p}
            /\ ret' = Step("AddPlaylist", p, "")
            /\ IF QueueHasRoom(playlistQueue)
               THEN /\ playlistQueue' = Append(playlistQueue, p)
                    /\ UNCHANGED <<procs, pspawned>>
               ELSE /\ SpawnProc(p)
                    /\ UNCHANGED playlistQueue
    /\ sink' = <<>>
    /\ UNCHANGED <<pl, maxPlaylistParallel, vids, pmons>>
    /\ UNCHANGED scheduling

\* ---- Service.DownloadPlaylist ----
DownloadPlaylist(p) ==
    /\ IF ~IsReadyForDownload(pl[p])
       THEN /\ ret' = Step("DownloadPlaylist", p, "not ready")
            /\ UNCHANGED <<pl, procs, pspawned>>
       ELSE /\ pl' = [pl EXCEPT ![p].status = PlaylistStatusDownloading]
            /\ SpawnProc(p)
            /\ ret' = Step("DownloadPlaylist", p, "")
    /\ sink' = <<>>
    /\ UNCHANGED <<playlists, playlistQueue, maxPlaylistParallel, vids, pmons>>
    /\ UNCHANGED scheduling

\* ---- Service.CancelPlaylist ----
\* mutant: the cancellation marks every video Skipped
SkipDownloading_AnyStatus(vs, i) ==
    [j \in DOMAIN vs |-> [vs[j] EXCEPT !.status = VideoStatusSkipped]]

\* the loop of lines 1089-1093 from entry i on
RECURSIVE SkipDownloading(_, _)
SkipDownloading(vs, i) ==
    IF i > Len(vs) THEN vs
    ELSE SkipDownloading(
             IF vs[i].status = VideoStatusDownloading
             THEN UpdateVideoStatus(vs, vs[i].id, VideoStatusSkipped)
             ELSE vs,
             i + 1)

CancelPlaylist(p) ==
    /\ IF p \notin playlists
       THEN /\ ret' = Step("CancelPlaylist", p, "not found")
            /\ UNCHANGED pl
       ELSE /\ pl' = [pl EXCEPT ![p].status = PlaylistStatusError,
                                ![p].videos = SkipDownloading(@, 1)]
            /\ ret' = Step("CancelPlaylist", p, "")
    /\ sink' = <<>>
    /\ UNCHANGED <<playlists, playlistQueue, maxPlaylistParallel, procs, vids,
                   pmons, pspawned>>
    /\ UNCHANGED scheduling

\* ---- Service.SetMaxPlaylistParallel ----
SetMaxPlaylistParallel(n) ==
    /\ maxPlaylistParallel' = n
    /\ ret' = Step("SetMaxPlaylistParallel", n, "")
    /\ sink' = <<>>
    /\ UNCHANGED <<pl, playlists, playlistQueue, procs, vids, pmons, pspawned>>
    /\ UNCHANGED scheduling

\* ---- Service.processPlaylist, one action per step between two waits ----
\* the routine k moves on as record k2
Proceeds(k, k2) == procs' = (procs \ {k}) \cup {k2}

\* lines 1008-1015: the pending videos are listed; none: Completed at once
ProcessBegin(k) ==
    LET pending == GetPendingVideos(pl[k.pl].videos) IN
    /\ k.pc = "begin"
    /\ IF Len(pending) = 0
       THEN /\ pl' = [pl EXCEPT ![k.pl].status = PlaylistStatusCompleted]
            /\ procs' = procs \ {k}
       ELSE /\ Proceeds(k, [k EXCEPT !.pc = "launch", !.pending = pending,
                                     !.chunk = maxPlaylistParallel])
            /\ UNCHANGED pl
    /\ ret' = Step("process.begin", k.pl, "")
    /\ sink' = <<>>
    /\ UNCHANGED <<playlists, playlistQueue, maxPlaylistParallel, vids, pmons, pspawned>>
    /\ UNCHANGED scheduling

\* min(i+chunkSize, len(pendingVideos))
ChunkEnd(k) == IF k.i + k.chunk < Len(k.pending) THEN k.i + k.chunk ELSE Len(k.pending)

\* lines 1016-1028: one goroutine per video of the chunk
ProcessLaunch(k) ==
    /\ k.pc = "launch"
    /\ vids' = vids \cup {[proc |-> k.n, pl |-> k.pl, idx |-> k.pending[j], pc |-> "start"] :
                            j \in (k.i + 1)..ChunkEnd(k)}
    /\ Proceeds(k, [k EXCEPT !.pc = "wait"])
    /\ ret' = Step("process.launch", k.pl, "")
    /\ sink' = <<>>
    /\ UNCHANGED <<pl, playlists, playlistQueue, maxPlaylistParallel, pmons, pspawned>>
    /\ UNCHANGED scheduling

\* wg.Wait() returns: every goroutine of the chunk has called wg.Done()
ChunkDone(k) == \A v \in vids : v.proc # k.n

\* mutant: a chunk with a failed video ends the routine like a cancellation
ProcessWait_AbortsOnFailure(k) ==
    /\ k.pc = "wait"
    /\ ChunkDone(k)
    /\ IF \/ pl[k.pl].status = PlaylistStatusError
          \/ \E i \in DOMAIN pl[k.pl].videos :
                 pl[k.pl].videos[i].status = VideoStatusError
       THEN procs' = procs \ {k}
       ELSE IF k.i + k.chunk < Len(k.pending)
       THEN Proceeds(k, [k EXCEPT !.pc = "launch", !.i = k.i + k.chunk])
       ELSE Proceeds(k, [k EXCEPT !.pc = "complete"])
    /\ ret' = Step("process.wait", k.pl, "")
    /\ sink' = <<>>
    /\ UNCHANGED <<pl, playlists, playlistQueue, maxPlaylistParallel, vids, pmons, pspawned>>
    /\ UNCHANGED scheduling

\* lines 1030-1036: the chunk is done; return if the playlist was cancelled,
\* else go on with the next chunk or leave the loop
ProcessWait(k) ==
    /\ k.pc = "wait"
    /\ ChunkDone(k)
    /\ IF pl[k.pl].status = PlaylistStatusError
       THEN procs' = procs \ {k}
       ELSE IF k.i + k.chunk < Len(k.pending)
       THEN Proceeds(k, [k EXCEPT !.pc = "launch", !.i = k.i + k.chunk])
       ELSE Proceeds(k, [k EXCEPT !.pc = "complete"])
    /\ ret' = Step("process.wait", k.pl, "")
    /\ sink' = <<>>
    /\ UNCHANGED <<pl, playlists, playlistQueue, maxPlaylistParallel, vids, pmons, pspawned>>
    /\ UNCHANGED scheduling

\* line 1040: playlist.UpdateStatus(Completed)
ProcessComplete(k) ==
    /\ k.pc = "complete"
    /\ pl' = [pl EXCEPT ![k.pl].status = PlaylistStatusCompleted]
    /\ procs' = procs \ {k}
    /\ ret' = Step("process.complete", k.pl, "")
    /\ sink' = <<>>
    /\ UNCHANGED <<playlists, playlistQueue, maxPlaylistParallel, vids, pmons, pspawned>>
    /\ UNCHANGED scheduling

\* ---- Service.downloadPlaylistVideo ----
\* line 1046: the video is marked Downloading
VideoStart(v) ==
    /\ v.pc = "start"
    /\ pl' = [pl EXCEPT ![v.pl].videos =
                  UpdateVideoStatus(@, @[v.idx].id, VideoStatusDownloading)]
    /\ vids' = (vids \ {v}) \cup {[v EXCEPT !.pc = "addtask"]}
    /\ ret' = Step("video.start", v.pl, "")
    /\ sink' = <<>>
    /\ UNCHANGED <<playlists, playlistQueue, maxPlaylistParallel, procs, pmons, pspawned>>
    /\ UNCHANGED scheduling

\* lines 1049-1072: AddTask for the video's URL; rejected: the video is marked
\* Error; accepted: a poller is started for the task; then wg.Done()
VideoAddTask(v) ==
    LET video == pl[v.pl].videos[v.idx] IN
    /\ v.pc = "addtask"
    /\ AddTask(video.url)
    /\ IF ret'.err # ""
       THEN /\ pl' = [pl EXCEPT ![v.pl].videos =
                         UpdateVideoStatus(@, video.id, VideoStatusError)]
            /\ UNCHANGED pmons
       ELSE /\ pmons' = pmons \cup {[pl |-> v.pl, idx |-> v.idx, task |-> ret'.id]}
            /\ UNCHANGED pl
    /\ vids' = vids \ {v}
    /\ UNCHANGED <<playlists, playlistQueue, maxPlaylistParallel, procs, pspawned>>

\* lines 1057-1072: the tick of the poller that finds its task finished (a
\* tick before that copies the task's progress to the video and goes on)
PollTask(m) ==
    LET t == obj[m.task]
        id == pl[m.pl].videos[m.idx].id IN
    /\ IsFinished(t.status)
    /\ pl' = [pl EXCEPT ![m.pl].videos =
                  UpdateVideoStatus(@, id, IF t.status = TaskStatusCompleted
                                           THEN VideoStatusCompleted
                                           ELSE VideoStatusError)]
    /\ pmons' = pmons \ {m}
    /\ ret' = Step("video.poll", m.pl, "")
    /\ sink' = <<>>
    /\ UNCHANGED <<playlists, playlistQueue, maxPlaylistParallel, procs, vids, pspawned>>
    /\ UNCHANGED scheduling

\* an API call on the playlist coordinator (at most MaxCallsPlaylist of them);
\* the UI registers a playlist before it downloads it (onPlaylistDownload)
CallPlaylist(A) ==
    calls < MaxCallsPlaylist /\ A /\ calls' = calls + 1
    /\ UNCHANGED <<smoothing, compressing, progressState, prefs>>

\* a step of a goroutine of the coordinator
Coordinator(A) == A /\ UNCHANGED <<calls, smoothing, compressing, progressState, prefs>>

NextPlaylist ==
    \/ \E p \in Targets : CallPlaylist(AddPlaylist(p))
    \/ \E p \in playlists : CallPlaylist(DownloadPlaylist(p))
    \/ \E p \in Targets : CallPlaylist(CancelPlaylist(p))
    \/ \E n \in 1..MaxChunk : CallPlaylist(SetMaxPlaylistParallel(n))
    \/ \E k \in procs : Coordinator(ProcessBegin(k))
    \/ \E k \in procs : Coordinator(ProcessLaunch(k))
    \/ \E k \in procs : Coordinator(ProcessWait(k))
    \/ \E k \in procs : Coordinator(ProcessComplete(k))
    \/ \E v \in vids : Coordinator(VideoStart(v))
    \/ \E v \in vids : Coordinator(VideoAddTask(v))
    \/ \E m \in pmons : Coordinator(PollTask(m))
    \/ \E r \in DOMAIN runs : Internal(StartTaskEnter(r))
    \/ \E r \in DOMAIN runs : Internal(StartTaskDownloading(r))
    \/ \E r \in DOMAIN runs : Internal(StopMonitor(r))
    \/ \E r \in DOMAIN runs : Internal(StartTaskResolve(r))
    \/ \E r \in DOMAIN runs : Internal(StartTaskOutputPath(r))
    \/ \E r \in DOMAIN runs : Internal(StartTaskFinish(r))
    \/ \E r \in DOMAIN runs : Internal(StartTaskRelease(r))
    \/ \E r \in DOMAIN runs : Internal(startNextPendingTask(r))

\* the service after NewService(dir, MaxParallelInit)
InitPlaylist == Init /\ maxParallel = MaxParallelInit

SpecPlaylist == InitPlaylist /\ [][NextPlaylist]_vars

\* the steps of the goroutines of the coordinator and of the download side
GoroutinesPlaylist ==
    \/ \E k \in procs : Coordinator(ProcessBegin(k))
    \/ \E k \in procs : Coordinator(ProcessLaunch(k))
    \/ \E k \in procs : Coordinator(ProcessWait(k))
    \/ \E k \in procs : Coordinator(ProcessComplete(k))
    \/ \E v \in vids : Coordinator(VideoStart(v))
    \/ \E v \in vids : Coordinator(VideoAddTask(v))
    \/ \E m \in pmons : Coordinator(PollTask(m))
    \/ \E r \in DOMAIN runs : Internal(StartTaskEnter(r))
    \/ \E r \in DOMAIN runs : Internal(StartTaskDownloading(r))
    \/ \E r \in DOMAIN runs : Internal(StopMonitor(r))
    \/ \E r \in DOMAIN runs : Internal(StartTaskResolve(r))
    \/ \E r \in DOMAIN runs : Internal(StartTaskOutputPath(r))
    \/ \E r \in DOMAIN runs : Internal(StartTaskFinish(r))
    \/ \E r \in DOMAIN runs : Internal(StartTaskRelease(r))
    \/ \E r \in DOMAIN runs : Internal(startNextPendingTask(r))

\* the coordinator under fair scheduling: the Go scheduler runs every started
\* goroutine and every engine call returns; the UI makes MaxCallsLive calls
MaxCallsLive == 2

CallLive(A) ==
    calls < MaxCallsLive /\ A /\ calls' = calls + 1
    /\ UNCHANGED <<smoothing, compressing, progressState, prefs>>

NextPlaylistLive ==
    \/ \E p \in Targets : CallLive(AddPlaylist(p))
    \/ \E p \in playlists : CallLive(DownloadPlaylist(p))
    \/ \E p \in Targets : CallLive(CancelPlaylist(p))
    \/ \E n \in 1..MaxChunk : CallLive(SetMaxPlaylistParallel(n))
    \/ GoroutinesPlaylist

SpecPlaylistFair ==
    InitPlaylist /\ [][NextPlaylistLive]_vars /\ WF_vars(GoroutinesPlaylist)

(***************************************************************************)
(* The playlist queue.  Nothing in the service receives from               *)
(* s.playlistQueue, so it fills up with the first QueueCap playlists that  *)
(* are registered; SpecQueue registers the playlists one after the other,  *)
(* in the order of their ids, and runs the routine of the one that finds   *)
(* the queue full.                                                         *)
(***************************************************************************)
\* the playlists registered so far and the next one
NextToAdd == {p \in PlaylistIds : p <= Cardinality(playlists) + 1}

\* a call of AddPlaylist
CallQueue(A) == A /\ UNCHANGED <<calls, smoothing, compressing, progressState, prefs>>

NextQueue ==
    \/ \E p \in NextToAdd : CallQueue(AddPlaylist(p))
    \/ \E k \in procs : Coordinator(ProcessBegin(k))
    \/ \E k \in procs : Coordinator(ProcessLaunch(k))
    \/ \E k \in procs : Coordinator(ProcessWait(k))
    \/ \E k \in procs : Coordinator(ProcessComplete(k))
    \/ \E v \in vids : Coordinator(VideoStart(v))
    \/ \E v \in vids : Coordinator(VideoAddTask(v))
    \/ \E m \in pmons : Coordinator(PollTask(m))
    \/ \E r \in DOMAIN runs : Internal(StartTaskEnter(r))
    \/ \E r \in DOMAIN runs : Internal(StartTaskDownloading(r))
    \/ \E r \in DOMAIN runs : Internal(StopMonitor(r))
    \/ \E r \in DOMAIN runs : Internal(StartTaskResolve(r))
    \/ \E r \in DOMAIN runs : Internal(StartTaskOutputPath(r))
    \/ \E r \in DOMAIN runs : Internal(StartTaskFinish(r))
    \/ \E r \in DOMAIN runs : Internal(StartTaskRelease(r))
    \/ \E r \in DOMAIN runs : Internal(startNextPendingTask(r))

SpecQueue == InitPlaylist /\ [][NextQueue]_vars

\* the same registrations; the UI follows the registration of a playlist
\* with DownloadPlaylist (onPlaylistDownload), here for the playlists that
\* found the queue full (SpecPlaylist has the call for the queued ones)
NextOverflow ==
    \/ NextQueue
    \/ \E p \in Overflowed : CallQueue(DownloadPlaylist(p))

SpecOverflow == InitPlaylist /\ [][NextOverflow]_vars

(***************************************************************************)
(* Compression service.  A task is created Pending by StartCompression and *)
(* supervised by one startCompression goroutine, which probes the duration *)
(* of the input, starts a goroutine that watches for the Stopping status   *)
(* and cancels the context, starts the encoder and waits for it.  A path   *)
(* is kept as the pair filepath.Ext splits it into.                        *)
(***************************************************************************)
MaxCTasks == 2
MaxCallsCompress == 3

\* the input paths handed to StartCompression and those that exist on disk
Paths ==
    {[base |-> "a", ext |-> ".mp4"], [base |-> "b", ext |-> ".mkv"],
     [base |-> "gone", ext |-> ".mp4"]}

Existing == {q \in Paths : q.base # "gone"}

CompressedSuffix == "-compressed"

generateOutputPath(q) == [base |-> q.base \o CompressedSuffix, ext |-> ".mp4"]

\* the task literal built by StartCompression
NewCompressionTask(q) ==
    [input |-> q, output |-> generateOutputPath(q), status |-> TaskStatusPending,
     percent |-> 0, lastError |-> ""]

\* a startCompression goroutine: its position, whether its context is
\* cancelled, the state of its stop watcher, and the result of cmd.Wait()
NewCompressionRun ==
    [pc |-> "spawned", cancelled |-> FALSE, mon |-> "none", werr |-> ""]

\* mutant: a Pending task counts as in progress too
InProgress_OrPending(q) ==
    \E t \in DOMAIN ctasks :
        ctasks[t].input = q /\ ~IsFinished(ctasks[t].status)

\* "task.InputPath == inputPath && task.Status.IsActive()" for some task
InProgress(q) ==
    \E t \in DOMAIN ctasks : ctasks[t].input = q /\ IsActive(ctasks[t].status)

\* ---- Service.StartCompression ----
StartCompression(q) ==
    /\ IF InProgress(q)
       THEN /\ ret' = [op |-> "StartCompression", id |-> 0, path |-> q,
                       err |-> "compression already in progress"]
            /\ UNCHANGED <<ctasks, cruns>>
       ELSE IF q \notin Existing
       THEN /\ ret' = [op |-> "StartCompression", id |-> 0, path |-> q,
                       err |-> "input file does not exist"]
            /\ UNCHANGED <<ctasks, cruns>>
       ELSE /\ Len(ctasks) < MaxCTasks
            /\ ctasks' = Append(ctasks, NewCompressionTask(q))
            /\ cruns' = Append(cruns, NewCompressionRun)
            /\ ret' = [op |-> "StartCompression", id |-> Len(ctasks) + 1,
                       path |-> q, err |-> ""]
    /\ sink' = <<>>
    /\ UNCHANGED outputs

\* ---- Service.StopCompression ----
\* mutant: a Pending task can be stopped as well
StopCompression_AlsoPending(t) ==
    /\ IF t \notin DOMAIN ctasks
       THEN /\ ret' = Step("StopCompression", t, "compression task not found")
            /\ sink' = <<>>
            /\ UNCHANGED ctasks
       ELSE IF IsFinished(ctasks[t].status)
       THEN /\ ret' = Step("StopCompression", t, "compression task is not active")
            /\ sink' = <<>>
            /\ UNCHANGED ctasks
       ELSE /\ ctasks' = [ctasks EXCEPT ![t].status = TaskStatusStopping]
            /\ ret' = Step("StopCompression", t, "")
            /\ sink' = <<t>>
    /\ UNCHANGED <<cruns, outputs>>

StopCompression(t) ==
    /\ IF t \notin DOMAIN ctasks
       THEN /\ ret' = Step("StopCompression", t, "compression task not found")
            /\ sink' = <<>>
            /\ UNCHANGED ctasks
       ELSE IF ~IsActive(ctasks[t].status)
       THEN /\ ret' = Step("StopCompression", t, "compression task is not active")
            /\ sink' = <<>>
            /\ UNCHANGED ctasks
       ELSE /\ ctasks' = [ctasks EXCEPT ![t].status = TaskStatusStopping]
            /\ ret' = Step("StopCompression", t, "")
            /\ sink' = <<t>>
    /\ UNCHANGED <<cruns, outputs>>

\* ---- Service.startCompression, one action per step between two waits ----
\* Service.setTaskError
setTaskError(t, e) ==
    ctasks' = [ctasks EXCEPT ![t].status = TaskStatusError, ![t].lastError = e]

\* lines 127-130: status = Starting, notify
startCompressionEnter(t) ==
    /\ cruns[t].pc = "spawned"
    /\ ctasks' = [ctasks EXCEPT ![t].status = TaskStatusStarting]
    /\ cruns' = [cruns EXCEPT ![t].pc = "probe"]
    /\ ret' = Step("compress.enter", t, "")
    /\ sink' = <<t>>
    /\ UNCHANGED outputs

\* lines 133-160: ffprobe returns; on an error the task is set to Error and the
\* goroutine ends; else the context is made and the stop watcher started
startCompressionProbe(t) ==
    /\ cruns[t].pc = "probe"
    /\ \E e \in {"", "failed to run ffprobe"} :
          IF e # ""
          THEN /\ setTaskError(t, e)
               /\ cruns' = [cruns EXCEPT ![t].pc = "done"]
               /\ ret' = Step("compress.probe", t, e)
          ELSE /\ cruns' = [cruns EXCEPT ![t].pc = "setdownloading", ![t].mon = "poll"]
               /\ ret' = Step("compress.probe", t, "")
               /\ UNCHANGED ctasks
    /\ sink' = IF ret'.err # "" THEN <<t>> ELSE <<>>
    /\ UNCHANGED outputs

\* lines 146-159, a turn of the stop watcher that ends its wait: it reads
\* Stopping and goes on to cancel, or reads a finished status and returns
StopWatch(t) ==
    /\ cruns[t].mon = "poll"
    /\ \/ /\ ctasks[t].status = TaskStatusStopping
          /\ cruns' = [cruns EXCEPT ![t].mon = "cancel"]
       \/ /\ IsFinished(ctasks[t].status)
          /\ cruns' = [cruns EXCEPT ![t].mon = "done"]
    /\ ret' = Step("compress.watch", t, "")
    /\ sink' = <<>>
    /\ UNCHANGED <<ctasks, outputs>>

\* line 152: cancel()
StopWatchCancel(t) ==
    /\ cruns[t].mon = "cancel"
    /\ cruns' = [cruns EXCEPT ![t].mon = "done", ![t].cancelled = TRUE]
    /\ ret' = Step("compress.cancel", t, "")
    /\ sink' = <<>>
    /\ UNCHANGED <<ctasks, outputs>>

\* lines 163-166: status = Downloading, notify
startCompressionDownloading(t) ==
    /\ cruns[t].pc = "setdownloading"
    /\ ctasks' = [ctasks EXCEPT ![t].status = TaskStatusDownloading]
    /\ cruns' = [cruns EXCEPT ![t].pc = "start"]
    /\ ret' = Step("compress.downloading", t, "")
    /\ sink' = <<t>>
    /\ UNCHANGED outputs

\* lines 169-186: the encoder is started.  cmd.Start fails when the context
\* is already cancelled, and may fail otherwise (no ffmpeg); a started
\* encoder creates the output file ("-y": over any file at that path)
startCompressionStart(t) ==
    /\ cruns[t].pc = "start"
    /\ \E e \in IF cruns[t].cancelled THEN {"failed to start ffmpeg"}
                ELSE {"", "failed to start ffmpeg"} :
          IF e # ""
          THEN /\ setTaskError(t, e)
               /\ cruns' = [cruns EXCEPT ![t].pc = "done", ![t].cancelled = TRUE]
               /\ ret' = Step("compress.start", t, e)
               /\ UNCHANGED outputs
          ELSE /\ cruns' = [cruns EXCEPT ![t].pc = "wait"]
               /\ outputs' = outputs \cup {ctasks[t].output}
               /\ ret' = Step("compress.start", t, "")
               /\ UNCHANGED ctasks
    /\ sink' = IF ret'.err # "" THEN <<t>> ELSE <<>>

\* ---- Service.monitorProgress ----
\* the duration ffprobe reports for an input, in seconds (0: none reported)
DurationOf(q) == IF q.base = "a" THEN 10 ELSE 0

\* the lines the encoder writes to its progress pipe: "out_time_us=<us>" with
\* a time before the start, inside and beyond the duration, the same key with
\* a value that is no integer, and a line with another key
OutTimes == {-5000000, 0, 5000000, 20000000}

ProgressLines ==
    {[key |-> "out_time_us", int |-> TRUE, us |-> us] : us \in OutTimes}
        \cup {[key |-> "out_time_us", int |-> FALSE, us |-> 0],
              [key |-> "frame", int |-> TRUE, us |-> 0]}

\* int(x) of Go: the quotient a/b cut towards zero (b > 0)
TruncDiv(a, b) == IF a >= 0 THEN a \div b ELSE -((-a) \div b)

\* lines 264-275: the percent of the time us against the duration: the
\* fraction us / (duration * 1000000), cut to 1 from above, times 100
PercentAt(us, duration) ==
    IF us > duration * 1000000 THEN 100
    ELSE TruncDiv(us * 100, duration * 1000000)

\* one line read by the scanner while the encoder runs
monitorProgress(t) ==
    /\ cruns[t].pc = "wait"
    /\ \E line \in ProgressLines :
        LET duration == DurationOf(ctasks[t].input) IN
        /\ IF line.key = "out_time_us" /\ line.int /\ duration > 0
           THEN /\ ctasks' = [ctasks EXCEPT ![t].percent = PercentAt(line.us, duration)]
                /\ sink' = <<t>>
           ELSE /\ UNCHANGED ctasks
                /\ sink' = <<>>
        /\ ret' = [op |-> "compress.progress", id |-> t, err |-> "", line |-> line]
    /\ UNCHANGED <<cruns, outputs>>

\* line 189: cmd.Wait() returns: the encoder ended by itself, well or with an
\* error, or it was killed because the context is cancelled
EncoderExits(t) ==
    /\ cruns[t].pc = "wait"
    /\ \E e \in {"", "exit status 1"} \cup
                (IF cruns[t].cancelled THEN {"signal: killed"} ELSE {}) :
          /\ cruns' = [cruns EXCEPT ![t].pc = "result", ![t].werr = e]
          /\ ret' = Step("compress.wait", t, e)
    /\ sink' = <<>>
    /\ UNCHANGED <<ctasks, outputs>>

\* lines 192-210: the final status; a cancelled or failed encode has its
\* output file removed; then the deferred cancel()
startCompressionResult(t) ==
    /\ cruns[t].pc = "result"
    /\ IF cruns[t].cancelled
       THEN /\ ctasks' = [ctasks EXCEPT ![t].status = TaskStatusStopped]
            /\ outputs' = outputs \ {ctasks[t].output}
       ELSE IF cruns[t].werr # ""
       THEN /\ ctasks' = [ctasks EXCEPT ![t].status = TaskStatusError,
                                         ![t].lastError = cruns[t].werr]
            /\ outputs' = outputs \ {ctasks[t].output}
       ELSE /\ ctasks' = [ctasks EXCEPT ![t].status = TaskStatusCompleted,
                                         ![t].percent = 100]
            /\ UNCHANGED outputs
    /\ cruns' = [cruns EXCEPT ![t].pc = "done", ![t].cancelled = TRUE]
    /\ ret' = Step("compress.result", t, "")
    /\ sink' = <<t>>

\* an API call on the compression service (at most MaxCallsCompress of them)
CallCompress(A) ==
    calls < MaxCallsCompress /\ A /\ calls' = calls + 1
    /\ UNCHANGED <<scheduling, smoothing, playlisting, progressState, prefs>>

\* a step of a goroutine of the compression service
Supervisor(A) == A /\ UNCHANGED <<calls, scheduling, smoothing, playlisting, progressState, prefs>>

NextCompress ==
    \/ \E q \in Paths : CallCompress(StartCompression(q))
    \/ \E t \in 1..MaxCTasks : CallCompress(StopCompression(t))
    \/ \E t \in DOMAIN cruns : Supervisor(startCompressionEnter(t))
    \/ \E t \in DOMAIN cruns : Supervisor(startCompressionProbe(t))
    \/ \E t \in DOMAIN cruns : Supervisor(StopWatch(t))
    \/ \E t \in DOMAIN cruns : Supervisor(StopWatchCancel(t))
    \/ \E t \in DOMAIN cruns : Supervisor(startCompressionDownloading(t))
    \/ \E t \in DOMAIN cruns : Supervisor(startCompressionStart(t))
    \/ \E t \in DOMAIN cruns : Supervisor(monitorProgress(t))
    \/ \E t \in DOMAIN cruns : Supervisor(EncoderExits(t))
    \/ \E t \in DOMAIN cruns : Supervisor(startCompressionResult(t))

\* the services after NewService(dir, MaxParallelInit) and compress.NewService()
InitCompress == Init /\ maxParallel = MaxParallelInit

SpecCompress == InitCompress /\ [][NextCompress]_vars

(***************************************************************************)
(* Registry lookups.  Of a URL the lookups read its shape: which marker it *)
(* holds ("youtube.com/watch?v=", "youtu.be/", "vimeo.com/" or none), the  *)
(* identifier that follows the marker, and the length of the whole URL.    *)
(* Strings are kept as sequences of characters.                            *)
(***************************************************************************)
Vid11 == <<"a", "b", "c", "d", "e", "f", "g", "h", "i", "j", "k">>

\* the URLs handed to AddTask in SpecLookup
LookupURLs == {"yt11", "yt5", "be11", "vimeo", "other", "huge"}

\* https://youtube.com/watch?v=abcdefghijk, https://youtube.com/watch?v=abcde,
\* https://youtu.be/abcdefghijk, https://vimeo.com/77,
\* https://example.com/clip, and a URL of 16^7 characters of no known shape
Text(u) ==
    CASE u = "yt11" -> [shape |-> "watch", vid |-> Vid11, len |-> 39]
      [] u = "yt5" -> [shape |-> "watch", vid |-> SubSeq(Vid11, 1, 5), len |-> 33]
      [] u = "be11" -> [shape |-> "short", vid |-> Vid11, len |-> 28]
      [] u = "vimeo" -> [shape |-> "vimeo", vid |-> <<"7", "7">>, len |-> 20]
      [] u = "huge" -> [shape |-> "other", vid |-> <<>>, len |-> 268435456]
      [] OTHER -> [shape |-> "other", vid |-> <<>>, len |-> 24]

HexDigit(d) ==
    <<"0", "1", "2", "3", "4", "5", "6", "7", "8", "9", "a", "b", "c", "d", "e", "f">>[d + 1]

\* fmt.Sprintf("%x", n)
RECURSIVE Hex(_)
Hex(n) == IF n < 16 THEN <<HexDigit(n)>> ELSE Append(Hex(n \div 16), HexDigit(n % 16))

\* the value a call leaves when it does not return: a runtime panic
Panic == <<"panic">>

\* "video_" + hash[:8]; the slice panics on a string shorter than 8
Fallback(hash) ==
    IF Len(hash) < 8 THEN Panic ELSE <<"video_">> \o SubSeq(hash, 1, 8)

\* Service.extractVideoID
extractVideoID(u) ==
    LET x == Text(u) IN
    IF x.shape = "watch" /\ Len(x.vid) = 11 THEN x.vid
    ELSE IF x.shape = "short" /\ Len(x.vid) = 11 THEN x.vid
    ELSE IF x.shape = "vimeo" /\ x.vid # <<>> THEN <<"vimeo_">> \o x.vid
    ELSE Fallback(Hex(x.len))

\* the video ids the user interface looks up
Queries == {Vid11, <<"vimeo_", "7", "7">>, <<"x">>}

\* a lookup changes nothing of the service
Lookup(r) ==
    /\ ret' = r
    /\ sink' = <<>>
    /\ UNCHANGED scheduling

\* ---- Service.GetTask ----
GetTask(id) ==
    Lookup([op |-> "GetTask", id |-> IF id \in tasks THEN id ELSE 0,
            found |-> id \in tasks, err |-> ""])

\* ---- Service.GetAllTasks ----
GetAllTasks ==
    Lookup([op |-> "GetAllTasks", id |-> 0, found |-> tasks, err |-> ""])

\* ---- Service.GetTaskByVideoID ----
\* the loop ranges over the map in an order the runtime picks: it returns a
\* task that matches, or comes first to a task whose URL makes
\* extractVideoID panic, or finds nothing
GetTaskByVideoID(v) ==
    LET match == {t \in tasks : extractVideoID(obj[t].url) = v}
        bad == {t \in tasks : extractVideoID(obj[t].url) = Panic} IN
    \/ \E t \in match :
          Lookup([op |-> "GetTaskByVideoID", id |-> t, found |-> TRUE, err |-> ""])
    \/ /\ bad # {}
       /\ Lookup([op |-> "GetTaskByVideoID", id |-> 0, found |-> FALSE,
                  err |-> "panic: slice bounds out of range"])
    \/ /\ bad = {} /\ match = {}
       /\ Lookup([op |-> "GetTaskByVideoID", id |-> 0, found |-> FALSE, err |-> ""])

NextLookup ==
    \/ \E u \in LookupURLs : Call(AddTask(u))
    \/ \E id \in TaskIds : Call(GetTask(id))
    \/ Call(GetAllTasks)
    \/ \E v \in Queries : Call(GetTaskByVideoID(v))
    \/ \E r \in DOMAIN runs : Internal(StartTaskEnter(r))
    \/ \E r \in DOMAIN runs : Internal(StartTaskDownloading(r))
    \/ \E r \in DOMAIN runs : Internal(StopMonitor(r))
    \/ \E r \in DOMAIN runs : Internal(StartTaskResolve(r))
    \/ \E r \in DOMAIN runs : Internal(StartTaskOutputPath(r))
    \/ \E r \in DOMAIN runs : Internal(StartTaskFinish(r))
    \/ \E r \in DOMAIN runs : Internal(StartTaskRelease(r))
    \/ \E r \in DOMAIN runs : Internal(startNextPendingTask(r))

SpecLookup == InitPlaylist /\ [][NextLookup]_vars

(***************************************************************************)
(* The raw progress samples.  SpecSmooth takes the percent and the speed   *)
(* of a sample as given; here updateTaskProgressFromNew is followed with   *)
(* the bytes and the time of each sample and with s.progressState, which   *)
(* holds the previous one.  Sizes are counted in MiB and times in seconds, *)
(* and the samples are chosen so that every quotient is exact.             *)
(***************************************************************************)
MaxClock == 3

\* p.DownloadedSize and p.TotalSize of a sample (0: total unknown), and the
\* time that passed since the previous sample
DownloadedSizes == {0, 40, 80}
TotalSizes == {0, 80}
Intervals == {0, 1, 2}

\* the zero value a missing map entry reads as
NoSample == [lastBytes |-> 0, lastAt |-> 0]

LastSample(ps, t) == IF t \in DOMAIN ps THEN ps[t] ELSE NoSample

\* lines 675-683: the percent of the sample; known: whether one was computed
SamplePercent(d, total) ==
    IF total > 0 THEN [known |-> TRUE, percent |-> (d * 100) \div total]
    ELSE IF d > 0 THEN [known |-> TRUE, percent |-> IF d < 99 THEN d ELSE 99]
    ELSE [known |-> FALSE, percent |-> 0]

\* lines 688-697 and 713-716: bytes per second between the sample state and
\* the new sample, 0 when the bytes or the time did not advance
DeltaSpeed(state, d, now) ==
    IF state.lastAt # 0 /\ d - state.lastBytes > 0 /\ now - state.lastAt > 0
    THEN (d - state.lastBytes) \div (now - state.lastAt)
    ELSE 0

\* lines 711-723: the ETA, computed against the state that line 698 has just
\* stored; eta is the value the task had
SampleETA(state, d, total, now, eta) ==
    IF total > 0 /\ DeltaSpeed(state, d, now) > 0 /\ total - d > 0
    THEN (total - d) \div DeltaSpeed(state, d, now)
    ELSE eta

\* Service.updateTaskProgressFromNew on the sample (d, total) at time now
updateTaskProgressRaw(r) ==
    LET t == runs[r].task IN
    /\ runs[r].pc = "download"
    /\ \E d \in DownloadedSizes : \E total \in TotalSizes : \E dt \in Intervals :
        LET old == LastSample(progressState, t)
            now == IF t \in DOMAIN progressState THEN old.lastAt + dt ELSE 1
            pct == SamplePercent(d, total)
            speed == DeltaSpeed(old, d, now)
            stored == SetMode(progressState, t, [lastBytes |-> d, lastAt |-> now])
        IN
        /\ now <= MaxClock
        /\ progressState' = stored
        /\ obj' = [obj EXCEPT
                     ![t].progress = IF pct.known THEN pct.percent ELSE @,
                     ![t].eta = SampleETA(LastSample(stored, t), d, total, now, @)]
        /\ buf' = IF t \in DOMAIN buf
                  THEN [buf EXCEPT ![t] = addMeasurement(@, speed, pct.percent)]
                  ELSE buf
        /\ ret' = [op |-> "progress.raw", id |-> t, err |-> "", downloaded |-> d,
                   total |-> total, now |-> now, speed |-> speed]
    /\ sink' = <<>>
    /\ UNCHANGED <<tasks, stopModes, activeCount, maxParallel, runs, spawned,
                   orphans, calls, timers, ticks, playlisting, compressing, prefs>>

NextETA ==
    \/ \E u \in URLs : Len(obj) < MaxTasksSmooth /\ Call(AddTask(u))
    \/ \E r \in DOMAIN runs : Internal(StartTaskEnter(r))
    \/ \E r \in DOMAIN runs : Internal(StartTaskDownloading(r))
    \/ \E r \in DOMAIN runs : Internal(StopMonitor(r))
    \/ \E r \in DOMAIN runs : Internal(StartTaskResolve(r))
    \/ \E r \in DOMAIN runs : Internal(StartTaskOutputPath(r))
    \/ \E r \in DOMAIN runs : updateTaskProgressRaw(r)
    \/ \E r \in DOMAIN runs : Internal(StartTaskFinish(r))
    \/ \E r \in DOMAIN runs : Internal(StartTaskRelease(r))
    \/ \E r \in DOMAIN runs : Internal(startNextPendingTask(r))

SpecETA == InitSmooth /\ [][NextETA]_vars

(***************************************************************************)
(* The smoothed values of a buffer of several samples.  SpecMean follows   *)
(* one task whose progress callback buffers up to MaxMean samples between  *)
(* two firings of the smoothing timer; the percents and the speeds (tenths *)
(* of MB/s) are those of TestSmoothingState and a speed of 0.              *)
(***************************************************************************)
MaxMean == 3
MeanSamples ==
    {[speed |-> 15, percent |-> 25], [speed |-> 20, percent |-> 30],
     [speed |-> 18, percent |-> 35], [speed |-> 0, percent |-> 30]}

\* Service.updateTaskProgressFromNew with the samples of SpecMean
updateTaskProgressMean(r) ==
    LET t == runs[r].task IN
    /\ runs[r].pc = "download"
    /\ t \in DOMAIN buf => Len(buf[t]) < MaxMean
    /\ \E m \in MeanSamples :
        /\ obj' = [obj EXCEPT ![t].progress = m.percent]
        /\ buf' = IF t \in DOMAIN buf
                  THEN [buf EXCEPT ![t] = addMeasurement(@, m.speed, m.percent)]
                  ELSE buf
    /\ sink' = <<>>
    /\ ret' = Step("progress", t, "")
    /\ UNCHANGED <<tasks, stopModes, activeCount, maxParallel, runs, spawned,
                   orphans, calls, timers, ticks, playlisting, compressing, progressState, prefs>>

NextMean ==
    \/ \E u \in URLs : Len(obj) < MaxTasksSmooth /\ CallSmooth(AddTask(u))
    \/ \E r \in DOMAIN runs : Internal(StartTaskEnter(r))
    \/ \E r \in DOMAIN runs : StartTaskDownloadingSmooth(r)
    \/ \E r \in DOMAIN runs : Internal(StopMonitor(r))
    \/ \E r \in DOMAIN runs : Internal(StartTaskResolve(r))
    \/ \E r \in DOMAIN runs : Internal(StartTaskOutputPath(r))
    \/ \E r \in DOMAIN runs : updateTaskProgressMean(r)
    \/ \E r \in DOMAIN runs : StartTaskFinishSmooth(r)
    \/ \E r \in DOMAIN runs : Internal(StartTaskRelease(r))
    \/ \E r \in DOMAIN runs : Internal(startNextPendingTask(r))
    \/ \E t \in TaskIds : TimerFires(t)
    \/ \E k \in ticks : TimerPublishes(k)
    \/ \E k \in ticks : TimerClears(k)
    \/ \E k \in ticks : TimerChecks(k)
    \/ \E k \in ticks : TimerRearms(k)

SpecMean == InitSmooth /\ [][NextMean]_vars

(***************************************************************************)
(* The limit of parallel downloads.  The settings keep it as the integer   *)
(* preference "max_parallel_downloads"; the settings window stores what    *)
(* the user typed, and the service takes the stored value when the window  *)
(* reports a change.                                                       *)
(***************************************************************************)
DefaultMaxParallel == 2

\* the integers a caller may pass
Counts == (-3 .. 16) \cup {-2147483647, 2147483647}

\* a variant without the upper limit
SetMaxParallelDownloads_NoUpper(n) ==
    /\ maxParallel' = IF n < 1 THEN 1 ELSE n
    /\ ret' = [op |-> "SetMaxParallelDownloads", id |-> 0, err |-> "", n |-> n]

\* ---- Service.SetMaxParallelDownloads ----
SetMaxParallelDownloads(n) ==
    LET low == IF n < 1 THEN 1 ELSE n
        max == IF low > 10 THEN 10 ELSE low IN
    /\ maxParallel' = max
    /\ ret' = [op |-> "SetMaxParallelDownloads", id |-> 0, err |-> "", n |-> n]

\* ---- Settings.SetMaxParallelDownloads ----
StoredCount(n) ==
    LET low == IF n < 1 THEN 1 ELSE n IN
    IF low > 10 THEN 10 ELSE low

SettingsSetMaxParallelDownloads(n) ==
    /\ prefs' = StoredCount(n)
    /\ ret' = [op |-> "Settings.SetMaxParallelDownloads", id |-> 0, err |-> "", n |-> n]

\* ---- Settings.GetMaxParallelDownloads ----
\* a value that is not positive is replaced by the default, which is stored
GetMaxParallelDownloads ==
    IF prefs <= 0 THEN [value |-> DefaultMaxParallel, stored |-> StoredCount(DefaultMaxParallel)]
    ELSE [value |-> prefs, stored |-> prefs]

\* the frame of a step of the settings
Setting(A) ==
    /\ A
    /\ sink' = <<>>
    /\ UNCHANGED <<obj, tasks, stopModes, activeCount, runs, spawned, orphans, calls,
                   smoothing, playlisting, compressing, progressState>>

\* an API call on the service with an integer of the caller
ServiceSet(n) == Setting(SetMaxParallelDownloads(n) /\ UNCHANGED prefs)

\* the settings are written
SettingsSet(n) == Setting(SettingsSetMaxParallelDownloads(n) /\ UNCHANGED maxParallel)

\* the settings are read
SettingsGet ==
    Setting(/\ prefs' = GetMaxParallelDownloads.stored
            /\ ret' = [op |-> "Settings.GetMaxParallelDownloads", id |-> 0, err |-> "",
                       n |-> GetMaxParallelDownloads.value]
            /\ UNCHANGED maxParallel)

\* the settings have changed: the service takes the stored limit
ApplySettings ==
    Setting(/\ prefs' = GetMaxParallelDownloads.stored
            /\ SetMaxParallelDownloads(GetMaxParallelDownloads.value))

NextSettings ==
    \/ \E n \in Counts : ServiceSet(n)
    \/ \E n \in Counts : SettingsSet(n)
    \/ SettingsGet
    \/ ApplySettings

\* the service is built with the limit the settings give (cmd/yt-downloader)
InitSettings == Init /\ maxParallel = DefaultMaxParallel

SpecSettings == InitSettings /\ [][NextSettings]_vars

(***************************************************************************)
(* The output path as a string.  The compression service above keeps a     *)
(* path as the pair filepath.Ext splits it into; here a path is the        *)
(* sequence of its characters and the split is computed.  SpecPath applies *)
(* generateOutputPath to every path of up to MaxPath characters of         *)
(* PathChars and to the paths of TestGenerateOutputPath.                   *)
(***************************************************************************)
MaxPath == 4
PathChars == {"/", ".", "v", "m"}

RECURSIVE Strings(_)
Strings(n) ==
    IF n = 0 THEN {<<>>}
    ELSE Strings(n - 1) \cup {Append(w, c) : w \in Strings(n - 1), c \in PathChars}

TestPaths ==
    {<<"/", "a", "/", "b", "/", "v", "i", "d", "e", "o", ".", "m", "k", "v">>,
     <<"/", "n", "o", "/", "e", "x", "t", "/", "f", "i", "l", "e">>,
     <<"v", "i", "d", "e", "o", ".", "a", "v", "i">>,
     <<"/", "p", "a", "t", "h", "/", "t", "o", "/", "v", "i", "d", "e", "o", ".", "m", "p", "4">>,
     <<"/", "a", ".", "b", "/", "x", "-", "c", "o", "m", "p", "r", "e", "s", "s", "e", "d", ".", "m", "p", "4">>,
     <<"-", "c", "o", "m", "p", "r", "e", "s", "s", "e", "d", ".", "m", "p", "4">>}

InputPaths == Strings(MaxPath) \cup TestPaths

CompressedSuffixChars == <<"-", "c", "o", "m", "p", "r", "e", "s", "s", "e", "d">>
Mp4 == <<".", "m", "p", "4">>

\* a variant that takes the final dot of the whole path
RECURSIVE ExtFrom_AnyElement(_, _)
ExtFrom_AnyElement(path, i) ==
    IF i < 1 THEN <<>>
    ELSE IF path[i] = "." THEN SubSeq(path, i, Len(path))
    ELSE ExtFrom_AnyElement(path, i - 1)

\* filepath.Ext: "for i := len(path) - 1; i >= 0 && !os.IsPathSeparator(path[i]); i--
\* { if path[i] == '.' { return path[i:] } }; return \"\""
RECURSIVE ExtFrom(_, _)
ExtFrom(path, i) ==
    IF i < 1 \/ path[i] = "/" THEN <<>>
    ELSE IF path[i] = "." THEN SubSeq(path, i, Len(path))
    ELSE ExtFrom(path, i - 1)

Ext(path) == ExtFrom(path, Len(path))

\* strings.TrimSuffix
HasSuffix(w, suffix) ==
    Len(w) >= Len(suffix) /\ SubSeq(w, Len(w) - Len(suffix) + 1, Len(w)) = suffix

TrimSuffix(w, suffix) ==
    IF HasSuffix(w, suffix) THEN SubSeq(w, 1, Len(w) - Len(suffix)) ELSE w

\* generateOutputPath on the characters of inputPath
generateOutputPathChars(inputPath) ==
    LET ext == Ext(inputPath)
        baseName == TrimSuffix(inputPath, ext) IN
    baseName \o CompressedSuffixChars \o Mp4

\* generateOutputPath is applied to an input path
GeneratesOutputPath(inputPath) ==
    /\ ret' = [op |-> "generateOutputPath", id |-> 0, err |-> "",
               input |-> inputPath, output |-> generateOutputPathChars(inputPath)]
    /\ sink' = <<>>
    /\ UNCHANGED <<obj, tasks, stopModes, activeCount, maxParallel, runs, spawned,
                   orphans, calls, smoothing, playlisting, compressing,
                   progressState, prefs>>

NextPath == \E inputPath \in InputPaths : GeneratesOutputPath(inputPath)

SpecPath == Init /\ [][NextPath]_vars

(***************************************************************************)
(* The measurement buffers of one SmoothingState, with the two slices kept *)
(* apart as the struct keeps them.  Each method holds ss.mutex from entry  *)
(* to return, so a call is one step.  The field "arrived" is not a field   *)
(* of the struct: it records the samples passed to addMeasurement since    *)
(* the last clearMeasurements, for the statement of properties.            *)
(***************************************************************************)
MaxRing == 12
RingSamples == {[speed |-> 20, percent |-> 30], [speed |-> 0, percent |-> 55]}

\* "&SmoothingState{speedMeasurements: make([]float64, 0, 10), ...}"
NewSmoothingState ==
    [speedMeasurements |-> <<>>, percentMeasurements |-> <<>>,
     smoothedSpeed |-> "", smoothedPercent |-> 0, arrived |-> <<>>]

RECURSIVE SumSeq(_)
SumSeq(s) == IF s = <<>> THEN 0 ELSE Head(s) + SumSeq(Tail(s))

\* a variant that keeps the first ten samples and drops the newest
ssAddMeasurement_DropsNewest(ss, speedMBps, percent) ==
    LET sp == Append(ss.speedMeasurements, speedMBps)
        pc == Append(ss.percentMeasurements, percent)
    IN  IF Len(sp) > 10
        THEN [ss EXCEPT !.speedMeasurements = SubSeq(sp, 1, Len(sp) - 1),
                        !.percentMeasurements = SubSeq(pc, 1, Len(pc) - 1)]
        ELSE [ss EXCEPT !.speedMeasurements = sp, !.percentMeasurements = pc]

\* SmoothingState.addMeasurement on the two slices: both are appended to,
\* and both lose their first element when the speed slice exceeds 10
ssAddMeasurement(ss, speedMBps, percent) ==
    LET sp == Append(ss.speedMeasurements, speedMBps)
        pc == Append(ss.percentMeasurements, percent)
    IN  IF Len(sp) > 10
        THEN [ss EXCEPT !.speedMeasurements = SubSeq(sp, 2, Len(sp)),
                        !.percentMeasurements = SubSeq(pc, 2, Len(pc))]
        ELSE [ss EXCEPT !.speedMeasurements = sp, !.percentMeasurements = pc]

\* SmoothingState.calculateSmoothedValues on the two slices: each mean is
\* taken over its own slice; nothing is stored when the speed slice is empty
ssCalculateSmoothedValues(ss) ==
    IF Len(ss.speedMeasurements) = 0
    THEN ss
    ELSE LET total == SumSeq(ss.speedMeasurements) IN
         [ss EXCEPT
            !.smoothedSpeed = IF total > 0
                              THEN FormatSpeed(total, Len(ss.speedMeasurements))
                              ELSE "",
            !.smoothedPercent = SumSeq(ss.percentMeasurements)
                                    \div Len(ss.percentMeasurements)]

\* SmoothingState.clearMeasurements: both slices are cut to length 0
ssClearMeasurements(ss) ==
    [ss EXCEPT !.speedMeasurements = <<>>, !.percentMeasurements = <<>>]

\* the frame of a step on the SmoothingState
Measuring(op) ==
    /\ ret' = Step(op, 1, "")
    /\ sink' = <<>>
    /\ UNCHANGED <<obj, tasks, stopModes, activeCount, maxParallel, runs, spawned,
                   orphans, calls, timers, ticks, playlisting, compressing,
                   progressState, prefs>>

RingNew ==
    /\ buf = <<>>
    /\ buf' = <<NewSmoothingState>>
    /\ Measuring("new")

RingAdd(m) ==
    /\ buf # <<>>
    /\ Len(buf[1].arrived) < MaxRing
    /\ buf' = [buf EXCEPT ![1] = [ssAddMeasurement(@, m.speed, m.percent)
                                    EXCEPT !.arrived = Append(@, m)]]
    /\ Measuring("addMeasurement")

RingCalculate ==
    /\ buf # <<>>
    /\ buf' = [buf EXCEPT ![1] = ssCalculateSmoothedValues(@)]
    /\ Measuring("calculateSmoothedValues")

RingClear ==
    /\ buf # <<>>
    /\ buf' = [buf EXCEPT ![1] = [ssClearMeasurements(@) EXCEPT !.arrived = <<>>]]
    /\ Measuring("clearMeasurements")

NextRing ==
    \/ RingNew
    \/ \E m \in RingSamples : RingAdd(m)
    \/ RingCalculate
    \/ RingClear

SpecRing == Init /\ [][NextRing]_vars

(***************************************************************************)
(* Properties                                                              *)
(***************************************************************************)
NonFinished ==
    {TaskStatusPending, TaskStatusStarting, TaskStatusDownloading,
     TaskStatusStopping, TaskStatusPaused}
Finished == {TaskStatusStopped, TaskStatusCompleted, TaskStatusError}

\* the goroutines without the history field
Goroutines(rs) ==
    [r \in DOMAIN rs |-> [task |-> rs[r].task, pc |-> rs[r].pc,
                          cancelled |-> rs[r].cancelled, mon |-> rs[r].mon]]

\* the last element of runs' is a goroutine started by this step for task t
Started(t) ==
    /\ spawned' = spawned + 1
    /\ Len(runs') > 0
    /\ runs'[Len(runs')].task = t /\ runs'[Len(runs')].pc = "spawned"

\* C1: with the maximum fixed at n, the number of registry tasks in Starting,
\* Downloading or Stopping is at most n in every reachable state.
C1_ActiveWithinMax ==
    Cardinality({t \in tasks : obj[t].status \in
        {TaskStatusStarting, TaskStatusDownloading, TaskStatusStopping}}) <= maxParallel

\* C2: whenever a supervising routine ends (its startNextPendingTask runs)
\* while some registry task is Pending and the active count is below the
\* maximum, a goroutine is started for one Pending task; a Pending task is
\* never left with no goroutine that will come to promote one; and under
\* fair scheduling every Pending task leaves Pending without an API call.
C2_EndPromotes ==
    (ret'.op = "startNext" /\ activeCount < maxParallel
        /\ \E t \in tasks : obj[t].status = TaskStatusPending)
    => \E t \in tasks : obj[t].status = TaskStatusPending /\ Started(t)

C2_PendingNotStranded ==
    (\E t \in tasks : obj[t].status = TaskStatusPending) => Len(runs) > 0

\* with no further API call needed, a Pending registry task leaves Pending
\* (or a goroutine is started, using up the last one the model allows)
IsPending(t) == t \in tasks /\ obj[t].status = TaskStatusPending

C2_LeavesPending ==
    \A t \in TaskIds : IsPending(t) ~> (~IsPending(t) \/ spawned = MaxRuns)

C2_Promotion ==
    [][C2_EndPromotes]_vars /\ []C2_PendingNotStranded /\ C2_LeavesPending

\* C2 witness: with max-parallel 1, a routine that ended has started the
\* Pending task that waited behind it.
C2_Witness ==
    /\ maxParallel = 1
    /\ ret.op = "startNext" /\ ret.id # 0
    /\ Len(runs) = 1 /\ runs[1].task = ret.id /\ runs[1].pc = "spawned"
    /\ obj[ret.id].status = TaskStatusPending
    /\ \E t \in tasks : t # ret.id /\ obj[t].status \in Finished

\* C3: the registry holds at most one task in a non-finished status per URL.
C3_OneNonFinishedPerURL ==
    \A t1 \in tasks : \A t2 \in tasks :
        (t1 # t2 /\ obj[t1].url = obj[t2].url)
        => ~(obj[t1].status \in NonFinished /\ obj[t2].status \in NonFinished)

\* C4: AddTask(u) fails and changes nothing while a registry task for u is
\* non-finished; otherwise it succeeds and stores a new Pending task with
\* progress 0, percent 0 and ETA -1.
C4_AddTaskStep ==
    ret'.op = "AddTask" =>
        IF \E t \in tasks : obj[t].url = ret'.url /\ obj[t].status \in NonFinished
        THEN /\ ret'.err # ""
             /\ obj' = obj /\ tasks' = tasks /\ activeCount' = activeCount
             /\ runs' = runs /\ stopModes' = stopModes /\ sink' = <<>>
        ELSE /\ ret'.err = ""
             /\ ret'.id \notin tasks /\ tasks' = tasks \cup {ret'.id}
             /\ Len(obj') = Len(obj) + 1 /\ ret'.id = Len(obj')
             /\ \A t \in DOMAIN obj : obj'[t] = obj[t]
             /\ obj'[ret'.id].url = ret'.url
             /\ obj'[ret'.id].status = TaskStatusPending
             /\ obj'[ret'.id].progress = 0
             /\ obj'[ret'.id].percent = 0
             /\ obj'[ret'.id].eta = -1
             /\ activeCount' = activeCount

C4_AddTask == [][C4_AddTaskStep]_vars

\* C4 witness: AddTask succeeded for a URL whose earlier task is finished.
C4_Witness ==
    /\ ret.op = "AddTask" /\ ret.err = ""
    /\ \E t \in tasks : t # ret.id /\ obj[t].url = ret.url /\ obj[t].status \in Finished

\* a step in which goroutine r writes the final status of its run
Finishes(r) ==
    /\ r \in DOMAIN runs /\ Live(runs[r])
    /\ r \in DOMAIN runs' /\ runs'[r].pc = "defer"

\* C5: StopTask on a task in Starting or Downloading sets Stopping and records
\* the hard stop, and the run whose context was cancelled for it ends with the
\* task Stopped and lastError empty, wherever the request reached the run.
C5_StopStep ==
    \A id \in tasks :
        (ret'.op = "StopTask" /\ ret'.id = id
            /\ obj[id].status \in {TaskStatusStarting, TaskStatusDownloading})
        => /\ obj'[id].status = TaskStatusStopping
           /\ id \in DOMAIN stopModes' /\ stopModes'[id] = StopModeStop

C5_RunEndsStopped ==
    \A r \in DOMAIN runs :
        (Finishes(r) /\ runs[r].req = "stop" /\ runs[r].cancelled)
        => /\ obj'[runs[r].task].status = TaskStatusStopped
           /\ obj'[runs[r].task].lastError = ""

C5_StopLandsStopped == [][C5_StopStep /\ C5_RunEndsStopped]_vars

\* C6: PauseTask on a task in Starting or Downloading sets Stopping and records
\* the pause, and the run whose context was cancelled for it ends with the
\* task Paused and lastError empty.
C6_PauseStep ==
    \A id \in tasks :
        (ret'.op = "PauseTask" /\ ret'.id = id
            /\ obj[id].status \in {TaskStatusStarting, TaskStatusDownloading})
        => /\ obj'[id].status = TaskStatusStopping
           /\ id \in DOMAIN stopModes' /\ stopModes'[id] = StopModePause

C6_RunEndsPaused ==
    \A r \in DOMAIN runs :
        (Finishes(r) /\ runs[r].req = "pause" /\ runs[r].cancelled)
        => /\ obj'[runs[r].task].status = TaskStatusPaused
           /\ obj'[runs[r].task].lastError = ""

C6_PauseLandsPaused == [][C6_PauseStep /\ C6_RunEndsPaused]_vars

\* C7: a run on which no StopTask, PauseTask or RemoveTask was issued since
\* its promotion (and that never ran beside another run of its task), and
\* whose engine call fails, ends in Error with a non-empty lastError.
C7_FailureStep ==
    \A r \in DOMAIN runs :
        (Finishes(r) /\ runs[r].req = "none" /\ ~runs[r].cancelled /\ ret'.err # "")
        => /\ obj'[runs[r].task].status = TaskStatusError
           /\ obj'[runs[r].task].lastError # ""

C7_FailureIsError == [][C7_FailureStep]_vars

\* C8: StopTask on a task in Pending, Paused or Error sets Stopped, empties
\* lastError, removes the stop intent, notifies once, and changes neither the
\* active count nor any other task.
C8_StopStep ==
    \A id \in tasks :
        (ret'.op = "StopTask" /\ ret'.id = id
            /\ obj[id].status \in {TaskStatusPending, TaskStatusPaused, TaskStatusError})
        => /\ ret'.err = ""
           /\ obj'[id].status = TaskStatusStopped
           /\ obj'[id].lastError = ""
           /\ id \notin DOMAIN stopModes'
           /\ sink' = <<id>>
           /\ activeCount' = activeCount
           /\ tasks' = tasks
           /\ \A t \in DOMAIN obj : t # id => obj'[t] = obj[t]

C8_StopInactive == [][C8_StopStep]_vars

\* C8 witness: StopTask has just resolved a task to Stopped directly.
C8_Witness ==
    /\ ret.op = "StopTask" /\ ret.err = "" /\ sink = <<ret.id>>
    /\ obj[ret.id].status = TaskStatusStopped

\* C9: StopTask on a Stopped or Completed task returns nil, changes no task,
\* records no stop intent and notifies nobody.
C9_StopStep ==
    \A id \in tasks :
        (ret'.op = "StopTask" /\ ret'.id = id
            /\ obj[id].status \in {TaskStatusStopped, TaskStatusCompleted})
        => /\ ret'.err = ""
           /\ obj' = obj /\ tasks' = tasks /\ stopModes' = stopModes
           /\ activeCount' = activeCount
           /\ Goroutines(runs') = Goroutines(runs)
           /\ sink' = <<>>

C9_StopTerminalNoOp == [][C9_StopStep]_vars

\* C9 witness: StopTask has just returned nil on a Stopped task, silently.
C9_Witness ==
    /\ ret.op = "StopTask" /\ ret.err = "" /\ sink = <<>>
    /\ ret.id \in tasks /\ obj[ret.id].status = TaskStatusStopped

\* C10: ResumeTask succeeds exactly on a Paused task: status Pending, progress,
\* percent and output path kept, the task started if the active count is
\* below the maximum; otherwise an error, no change, no notification.
C10_ResumeStep ==
    \A id \in TaskIds :
        (ret'.op = "ResumeTask" /\ ret'.id = id) =>
            IF id \in tasks /\ obj[id].status = TaskStatusPaused
            THEN /\ ret'.err = ""
                 /\ obj'[id] = [obj[id] EXCEPT !.status = TaskStatusPending]
                 /\ \A t \in DOMAIN obj : t # id => obj'[t] = obj[t]
                 /\ sink' = <<id>>
                 /\ IF activeCount < maxParallel
                    THEN Started(id)
                    ELSE runs' = runs
                 /\ tasks' = tasks /\ stopModes' = stopModes
                 /\ activeCount' = activeCount
            ELSE /\ ret'.err # ""
                 /\ obj' = obj /\ tasks' = tasks /\ stopModes' = stopModes
                 /\ activeCount' = activeCount /\ runs' = runs
                 /\ sink' = <<>>

C10_Resume == [][C10_ResumeStep]_vars

\* C10 witness: a Paused task with reported progress and an output path has
\* just been resumed and started.
C10_Witness ==
    /\ ret.op = "ResumeTask" /\ ret.err = ""
    /\ obj[ret.id].status = TaskStatusPending
    /\ obj[ret.id].progress > 0 /\ obj[ret.id].outputPath # ""
    /\ \E r \in DOMAIN runs : runs[r].task = ret.id /\ runs[r].pc = "spawned"

\* C11: RestartTask succeeds exactly on a registry task in Error, Stopped,
\* Paused or Pending: status Pending, progress 0, percent 0, lastError empty,
\* speed empty, ETA -1, one notification, and the task started if the active
\* count is below the maximum; otherwise an error, no change, no notification.
C11_RestartStep ==
    \A id \in TaskIds :
        (ret'.op = "RestartTask" /\ ret'.id = id) =>
            IF id \in tasks /\ obj[id].status \in
                   {TaskStatusError, TaskStatusStopped, TaskStatusPaused, TaskStatusPending}
            THEN /\ ret'.err = ""
                 /\ obj'[id] = [obj[id] EXCEPT !.status = TaskStatusPending,
                                               !.progress = 0, !.percent = 0,
                                               !.lastError = "", !.speed = "",
                                               !.eta = -1]
                 /\ \A t \in DOMAIN obj : t # id => obj'[t] = obj[t]
                 /\ sink' = <<id>>
                 /\ IF activeCount < maxParallel
                    THEN Started(id)
                    ELSE runs' = runs
                 /\ tasks' = tasks /\ activeCount' = activeCount
            ELSE /\ ret'.err # ""
                 /\ obj' = obj /\ tasks' = tasks /\ stopModes' = stopModes
                 /\ activeCount' = activeCount /\ runs' = runs
                 /\ sink' = <<>>

C11_Restart == [][C11_RestartStep]_vars

\* C11 witness: a task that failed with reported progress has just been
\* restarted: its fields are reset and a goroutine is started for it.
C11_Witness ==
    /\ ret.op = "RestartTask" /\ ret.err = ""
    /\ obj[ret.id].status = TaskStatusPending
    /\ obj[ret.id].progress = 0 /\ obj[ret.id].lastError = ""
    /\ obj[ret.id].outputPath # ""
    /\ \E r \in DOMAIN runs : runs[r].task = ret.id /\ runs[r].pc = "spawned"

\* C12: a RemoveTask that returns nil marks an active task Stopping and
\* deletes its registry entry, and an id that was removed is never in the
\* registry again: no step of a supervising routine, stop-monitor, progress
\* callback or smoothing timer re-inserts it.
C12_RemoveStep ==
    \A id \in TaskIds :
        (ret'.op = "RemoveTask" /\ ret'.id = id /\ ret'.err = "")
        => /\ id \in tasks /\ id \notin tasks'
           /\ IsActive(obj[id].status) => obj'[id].status = TaskStatusStopping

C12_StaysRemoved ==
    \A id \in DOMAIN obj : id \notin tasks => id \notin tasks'

C12_RemovedForGood == [][C12_RemoveStep /\ C12_StaysRemoved]_vars

\* C12 witness: a task was removed while it was downloading; afterwards its
\* smoothing timer callback ran to its end and its supervising routine wrote
\* a final status, and the registry is still without it.
C12_Witness ==
    /\ ret.op = "timer.check"
    /\ ret.id \in DOMAIN obj /\ ret.id \notin tasks
    /\ obj[ret.id].status \in Finished
    /\ obj[ret.id].progress > 0

\* the download tasks created for the videos of playlist p that have not
\* reached a finished status (each is watched by its poller until it has)
NonFinishedOf(p) ==
    {m.task : m \in {x \in pmons : x.pl = p /\ obj[x.task].status \notin Finished}}

\* C13: while processPlaylist works through the chunks of a playlist, at most
\* chunk-size download tasks of that playlist are in a non-finished status:
\* no video of the next chunk is handed to AddTask before every task of the
\* current chunk has finished.
C13_ChunkBarrier ==
    \A k \in procs :
        k.pc # "begin" => Cardinality(NonFinishedOf(k.pl)) <= k.chunk

\* C14: a playlist that DownloadPlaylist has set to Downloading reaches
\* Completed unless it is cancelled (only CancelPlaylist sets Error), whatever
\* becomes of its videos, and a Completed playlist stays Completed as long as
\* it is not cancelled
C14_Reaches ==
    \A p \in Targets :
        (pl[p].status = PlaylistStatusDownloading)
            ~> (pl[p].status \in {PlaylistStatusCompleted, PlaylistStatusError})

C14_Keeps ==
    \A p \in Targets :
        ret'.op # "CancelPlaylist" =>
            /\ pl[p].status = PlaylistStatusCompleted
                   => pl'[p].status = PlaylistStatusCompleted
            /\ pl'[p].status = PlaylistStatusError
                   => pl[p].status = PlaylistStatusError

C15_Skipped(v) ==
    IF v.status = VideoStatusDownloading
    THEN [v EXCEPT !.status = VideoStatusSkipped]
    ELSE v

C15_CancelStep ==
    \A p \in PlaylistIds :
        (ret'.op = "CancelPlaylist" /\ ret'.id = p) =>
            /\ IF p \in playlists
               THEN /\ ret'.err = ""
                    /\ pl'[p].status = PlaylistStatusError
                    /\ pl'[p].videos =
                          [i \in DOMAIN pl[p].videos |-> C15_Skipped(pl[p].videos[i])]
                    /\ \A q \in PlaylistIds \ {p} : pl'[q] = pl[q]
               ELSE /\ ret'.err # ""
                    /\ pl' = pl
            /\ obj' = obj /\ tasks' = tasks /\ stopModes' = stopModes
            /\ activeCount' = activeCount /\ runs' = runs
            /\ playlists' = playlists /\ playlistQueue' = playlistQueue
            /\ procs' = procs /\ vids' = vids /\ pmons' = pmons

C16_DownloadStep ==
    \A p \in PlaylistIds :
        (ret'.op = "DownloadPlaylist" /\ ret'.id = p) =>
            IF pl[p].status = PlaylistStatusReady /\ Len(pl[p].videos) > 0
            THEN /\ ret'.err = ""
                 /\ pl'[p].status = PlaylistStatusDownloading
                 /\ pl'[p].videos = pl[p].videos
                 /\ \E k \in procs' \ procs : k.pl = p /\ k.pc = "begin"
            ELSE /\ ret'.err # ""
                 /\ pl' = pl /\ procs' = procs /\ vids' = vids /\ pmons' = pmons
                 /\ playlists' = playlists /\ playlistQueue' = playlistQueue
                 /\ obj' = obj /\ tasks' = tasks /\ runs' = runs

C16_NeverReadyAgain ==
    \A p \in PlaylistIds :
        pl[p].status # PlaylistStatusReady => pl'[p].status # PlaylistStatusReady

C16_Download == [][C16_DownloadStep /\ C16_NeverReadyAgain]_vars

\* the second DownloadPlaylist on a playlist whose first one was accepted
C16_Witness ==
    /\ ret.op = "DownloadPlaylist" /\ ret.err # "" /\ ret.id = 1
    /\ pl[1].status = PlaylistStatusDownloading
    /\ pspawned = 1

\* C17: AddPlaylist with a registered id returns an error and leaves the
\* registry, the queue and the routines alone; with a new id it returns nil,
\* registers the playlist and appends it to the queue, or, the queue holding
\* QueueCap playlists, starts its routine at once.  The call can always be
\* made, and the queue never holds more than QueueCap playlists.
C17_AddStep ==
    \A p \in PlaylistIds :
        (ret'.op = "AddPlaylist" /\ ret'.id = p) =>
            /\ pl' = pl
            /\ IF p \in playlists
               THEN /\ ret'.err # ""
                    /\ playlists' = playlists
                    /\ playlistQueue' = playlistQueue
                    /\ procs' = procs
               ELSE /\ ret'.err = ""
                    /\ playlists' = playlists \cup {p}
                    /\ IF Len(playlistQueue) < QueueCap
                       THEN /\ playlistQueue' = Append(playlistQueue, p)
                            /\ procs' = procs
                       ELSE /\ playlistQueue' = playlistQueue
                            /\ \E k \in procs' : procs' = procs \cup {k}
                                   /\ k \notin procs /\ k.pl = p /\ k.pc = "begin"

C17_QueueBounded == Len(playlistQueue) <= QueueCap

C17_NeverBlocks == \A p \in NextToAdd : ENABLED AddPlaylist(p)

C17_AddPlaylist ==
    [](C17_QueueBounded /\ C17_NeverBlocks) /\ [][C17_AddStep]_vars

\* the playlist registered with the queue full: not queued, its routine started
C17_Witness ==
    /\ ret.op = "AddPlaylist" /\ ret.err = ""
    /\ Len(playlistQueue) = QueueCap
    /\ \A i \in DOMAIN playlistQueue : playlistQueue[i] # ret.id
    /\ ret.id \in playlists
    /\ \E k \in procs : k.pl = ret.id /\ k.pc = "begin"

\* C18: no two compression tasks with the same input path are both in a
\* non-finished status (Pending, Starting, Downloading, Stopping)
C18_OnePerInput ==
    \A t, u \in DOMAIN ctasks :
        (/\ t # u
         /\ ctasks[t].input = ctasks[u].input
         /\ ~IsFinished(ctasks[t].status))
            => IsFinished(ctasks[u].status)

\* C19: StartCompression(q) returns the "already in progress" error and
\* creates no task when a task with input q is Starting, Downloading or
\* Stopping; when there is none (each task with input q is Pending or
\* finished) and the file exists, it returns nil and adds a Pending task for q
C19_StartStep ==
    \A q \in Paths :
        (ret'.op = "StartCompression" /\ ret'.path = q) =>
            IF \E t \in DOMAIN ctasks :
                   /\ ctasks[t].input = q
                   /\ ctasks[t].status \in {TaskStatusStarting, TaskStatusDownloading,
                                             TaskStatusStopping}
            THEN /\ ret'.err = "compression already in progress"
                 /\ ctasks' = ctasks /\ cruns' = cruns
            ELSE IF q \in Existing
            THEN /\ ret'.err = ""
                 /\ ret'.id = Len(ctasks) + 1
                 /\ ctasks' = Append(ctasks, NewCompressionTask(q))
                 /\ Len(cruns') = Len(cruns) + 1
            ELSE /\ ret'.err # ""
                 /\ ctasks' = ctasks /\ cruns' = cruns

C19_Start == [][C19_StartStep]_vars

\* a second task for an input whose first task was stopped and reached Stopped
C19_Witness ==
    /\ ret.op = "StartCompression" /\ ret.err = "" /\ ret.id = 2
    /\ ctasks[1].input = ctasks[2].input
    /\ ctasks[1].status = TaskStatusStopped
    /\ ctasks[2].status = TaskStatusPending

\* C20: a task that StopCompression has set to Stopping stays Stopping until
\* it becomes Stopped: it never goes back to Downloading, never becomes
\* Completed, and becomes Error only by a failure of the probe or of the
\* encoder itself (not by the cancellation); at the step that makes it
\* Stopped no file is left at its output path
C20_OwnFailure(t) ==
    \/ ret'.op = "compress.probe"
    \/ ret'.op = "compress.start" /\ ~cruns[t].cancelled
    \/ ret'.op = "compress.result" /\ ~cruns[t].cancelled

C20_StopStep ==
    \A t \in DOMAIN ctasks :
        ctasks[t].status = TaskStatusStopping =>
            /\ \/ ctasks'[t].status \in {TaskStatusStopping, TaskStatusStopped}
               \/ ctasks'[t].status = TaskStatusError /\ C20_OwnFailure(t)
            /\ ctasks'[t].status = TaskStatusStopped
                   => ctasks[t].output \notin outputs'

C20_StopLandsStopped == [][C20_StopStep]_vars

\* C21: StopCompression on a task that is Starting, Downloading or Stopping
\* returns nil and sets the status to Stopping, nothing else; on an unknown id
\* or a task that is Pending, Stopped, Completed or Error it returns an error,
\* changes nothing and notifies nobody
C21_StopStep ==
    \A t \in 1..MaxCTasks :
        (ret'.op = "StopCompression" /\ ret'.id = t) =>
            /\ cruns' = cruns /\ outputs' = outputs
            /\ IF /\ t \in DOMAIN ctasks
                  /\ ctasks[t].status \in {TaskStatusStarting, TaskStatusDownloading,
                                            TaskStatusStopping}
               THEN /\ ret'.err = ""
                    /\ ctasks' = [ctasks EXCEPT ![t].status = TaskStatusStopping]
               ELSE /\ ret'.err # ""
                    /\ ctasks' = ctasks
                    /\ sink' = <<>>

C21_Stop == [][C21_StopStep]_vars

\* a StopCompression refused on a task that is still Pending
C21_Witness ==
    /\ ret.op = "StopCompression" /\ ret.err # ""
    /\ ret.id \in DOMAIN ctasks
    /\ ctasks[ret.id].status = TaskStatusPending
    /\ sink = <<>>

\* C22: the lastError of a download task is non-empty only while its status
\* is Error
C22_ErrorOnlyInError ==
    \A t \in DOMAIN obj :
        obj[t].lastError # "" => obj[t].status = TaskStatusError

\* C23: a step that changes the status, the progress or the speed of a
\* download task passes that task to the update sink
C23_Notified(t) == \E i \in DOMAIN sink' : sink'[i] = t

C23_MutationStep ==
    \A t \in DOMAIN obj :
        (\/ obj'[t].status # obj[t].status
         \/ obj'[t].progress # obj[t].progress
         \/ obj'[t].percent # obj[t].percent
         \/ obj'[t].speed # obj[t].speed)
            => C23_Notified(t)

C23_MutationsNotified == [][C23_MutationStep]_vars

\* C24: GetTask, GetAllTasks and GetTaskByVideoID return normally and leave the
\* registry, the tasks and the goroutines as they are, whatever URLs the
\* registered tasks have
C24_LookupStep ==
    ret'.op \in {"GetTask", "GetAllTasks", "GetTaskByVideoID"} =>
        /\ ret'.err = ""
        /\ obj' = obj /\ tasks' = tasks /\ stopModes' = stopModes
        /\ activeCount' = activeCount /\ runs' = runs

C24_LookupsReturn == [][C24_LookupStep]_vars

\* C25: on a sample with a known total that has bytes left, when the sample
\* before it had fewer bytes at an earlier time, the ETA of the task becomes
\* the bytes left divided by the speed between the two samples; on every
\* other sample the ETA stays as it was
C25_ETAStep ==
    ret'.op = "progress.raw" =>
        LET t == ret'.id
            prev == LastSample(progressState, t)
            d == ret'.downloaded
            total == ret'.total
            now == ret'.now
        IN
        IF /\ total > 0 /\ total - d > 0
           /\ t \in DOMAIN progressState
           /\ prev.lastBytes < d /\ prev.lastAt < now
        THEN obj'[t].eta = (total - d) \div ((d - prev.lastBytes) \div (now - prev.lastAt))
        ELSE obj'[t].eta = obj[t].eta

C25_ETAFromDelta == [][C25_ETAStep]_vars

\* C26: the percent of a compression task stays within 0..100 (its progress
\* is the hundredth of it), whatever progress lines the encoder writes
C26_PercentInRange ==
    \A t \in DOMAIN ctasks : ctasks[t].percent \in 0..100

\* C27: calculateSmoothedValues returns ("", 0) for an empty buffer and, for
\* a non-empty one, the floor of the mean of the buffered percents together
\* with the formatted mean speed when that mean is positive (no speed
\* otherwise); the buffered samples are left as they were.
FloorMean(b, m) == m * Len(b) <= SumPercent(b) /\ SumPercent(b) < (m + 1) * Len(b)

C27_Smoothed(b, k) ==
    /\ Len(b) = 0 => k.speed = "" /\ k.percent = 0
    /\ Len(b) > 0 =>
        /\ FloorMean(b, k.percent)
        /\ k.speed = IF SumSpeed(b) > 0 THEN FormatSpeed(SumSpeed(b), Len(b)) ELSE ""

C27_MeanStep ==
    ret'.op = "timer.fire" =>
        /\ buf' = buf
        /\ \E k \in ticks' : /\ k.task = ret'.id /\ k.pc = "publish"
                              /\ C27_Smoothed(buf[ret'.id], k)
                              /\ \A j \in ticks' \ ticks : j = k

C27_SmoothedMean == [][C27_MeanStep]_vars

\* the samples (1.5, 25), (2.0, 30), (1.8, 35) have been smoothed to
\* "1.8MB/s" and 30
C27_Witness ==
    \E t \in DOMAIN buf : \E k \in ticks :
        /\ k.task = t /\ k.pc = "publish"
        /\ buf[t] = <<[speed |-> 15, percent |-> 25], [speed |-> 20, percent |-> 30],
                      [speed |-> 18, percent |-> 35]>>
        /\ k.speed = "1.8MB/s" /\ k.percent = 30

\* C28: for every integer n, Service.SetMaxParallelDownloads(n) leaves the
\* effective maximum at min(max(n, 1), 10), and Settings.SetMaxParallelDownloads(n)
\* stores the same value.
Min(a, b) == IF a <= b THEN a ELSE b
Max(a, b) == IF a >= b THEN a ELSE b

C28_ClampStep ==
    /\ ret'.op = "SetMaxParallelDownloads" => maxParallel' = Min(Max(ret'.n, 1), 10)
    /\ ret'.op = "Settings.SetMaxParallelDownloads" => prefs' = Min(Max(ret'.n, 1), 10)

C28_Clamped == [][C28_ClampStep]_vars

\* SetMaxParallelDownloads(15) has left the service with 10 while the
\* settings hold the 1 that SetMaxParallelDownloads(0) stored
C28_Witness ==
    /\ ret.op = "SetMaxParallelDownloads" /\ ret.n = 15 /\ maxParallel = 10
    /\ prefs = 1

\* C29: generateOutputPath depends on the input path alone; the result is the
\* input without the final extension of its last element (the part from the
\* last dot that no separator follows; nothing if there is no such dot),
\* followed by "-compressed" and ".mp4"; /a/b/video.mkv gives
\* /a/b/video-compressed.mp4, /no/ext/file gives /no/ext/file-compressed.mp4,
\* and the result is never the input.
C29_NoDotInLastElement(w) ==
    \A i \in 1..Len(w) : w[i] = "." => \E j \in (i + 1)..Len(w) : w[j] = "/"

C29_Stem(w, k) ==
    \/ k = Len(w) /\ C29_NoDotInLastElement(w)
    \/ /\ k < Len(w) /\ w[k + 1] = "."
       /\ \A j \in (k + 2)..Len(w) : w[j] \notin {".", "/"}

C29_Expected(w, out) ==
    \E k \in 0..Len(w) :
        C29_Stem(w, k) /\ out = SubSeq(w, 1, k) \o <<"-", "c", "o", "m", "p", "r", "e", "s", "s", "e", "d">> \o <<".", "m", "p", "4">>

C29_OutputPath ==
    ret.op = "generateOutputPath" =>
        /\ C29_Expected(ret.input, ret.output)
        /\ ret.output = generateOutputPathChars(ret.input)
        /\ ret.output # ret.input
        /\ ret.input = <<"/", "a", "/", "b", "/", "v", "i", "d", "e", "o", ".", "m", "k", "v">> => ret.output = <<"/", "a", "/", "b", "/", "v", "i", "d", "e", "o", "-", "c", "o", "m", "p", "r", "e", "s", "s", "e", "d", ".", "m", "p", "4">>
        /\ ret.input = <<"/", "n", "o", "/", "e", "x", "t", "/", "f", "i", "l", "e">> => ret.output = <<"/", "n", "o", "/", "e", "x", "t", "/", "f", "i", "l", "e", "-", "c", "o", "m", "p", "r", "e", "s", "s", "e", "d", ".", "m", "p", "4">>

\* /a/b/video.mkv has been mapped to /a/b/video-compressed.mp4
C29_Witness ==
    /\ ret.op = "generateOutputPath"
    /\ ret.input = <<"/", "a", "/", "b", "/", "v", "i", "d", "e", "o", ".", "m", "k", "v">>
    /\ ret.output = <<"/", "a", "/", "b", "/", "v", "i", "d", "e", "o", "-", "c", "o", "m", "p", "r", "e", "s", "s", "e", "d", ".", "m", "p", "4">>

\* C30: at most one startTask routine supervises a download task at any
\* time: no second routine is started for a task whose start is in flight.
Supervising == {"spawned", "starting", "resolve", "resolved", "download"}

C30_OneRoutinePerTask ==
    \A r1, r2 \in DOMAIN runs :
        /\ r1 # r2
        /\ runs[r1].pc \in Supervising
        /\ runs[r2].pc \in Supervising
        => runs[r1].task # runs[r2].task

\* C31: a task that is Completed keeps that status; a task that is Stopped or
\* Error changes status only by RestartTask (to Pending) or by StopTask
\* (Error to Stopped); no routine moves a finished task to Starting or
\* Downloading.
C31_FinishedStep ==
    \A t \in tasks \cap tasks' :
        /\ obj[t].status = TaskStatusCompleted => obj'[t].status = TaskStatusCompleted
        /\ obj[t].status \in {TaskStatusStopped, TaskStatusError}
           /\ obj'[t].status # obj[t].status
           => \/ ret'.op = "RestartTask" /\ ret'.id = t
                 /\ obj'[t].status = TaskStatusPending
              \/ ret'.op = "StopTask" /\ ret'.id = t
                 /\ obj[t].status = TaskStatusError
                 /\ obj'[t].status = TaskStatusStopped

C31_FinishedStays == [][C31_FinishedStep]_vars

\* C32: under every interleaving of startSmoothingTimer, stopSmoothingTimer
\* and the timer callbacks, at most one smoothing timer is pending for a task.
C32_OneTimerPerTask ==
    \A t \in DOMAIN timers : timers[t].armed <= 1

\* a timer is pending for a task while a callback of an earlier timer of
\* that task has not returned
C32_Witness ==
    \E k \in ticks : Armed(k.task) /\ timers[k.task].armed = 1

\* C33: a callback of the smoothing timer arms the next timer only if it
\* found the task in the registry with status Downloading; once a task has
\* left Downloading for good (it is removed, finished or paused and none of
\* its supervising routines is left) its timer fires at most once more: after
\* a firing in that situation no timer of the task is pending and no callback
\* is about to arm one.
C33_LeftForGood(t) ==
    /\ t \notin tasks \/ obj[t].status \in Finished \cup {TaskStatusPaused}
    /\ \A r \in DOMAIN runs : runs[r].task # t

C33_RearmStep ==
    ret'.op = "timer.check" =>
        \A k \in ticks' \ ticks :
            k.pc = "arm" => k.task \in tasks /\ obj[k.task].status = TaskStatusDownloading

C33_LastFiringStep ==
    \A t \in DOMAIN obj :
        ret'.op = "timer.fire" /\ ret'.id = t /\ C33_LeftForGood(t)
        => /\ ~Armed(t)'
           /\ \A k \in ticks' : k.task = t => k.pc # "arm"

C33_TimerDiesOut == [][C33_RearmStep /\ C33_LastFiringStep]_vars

\* C34: a download task whose status is Completed has percent 100 and
\* progress 1.0 (100 hundredths here) in every reachable state; no later
\* publication of the smoothing timer lowers them.
C34_CompletedIsFull ==
    \A t \in DOMAIN obj :
        obj[t].status = TaskStatusCompleted =>
            obj[t].percent = 100 /\ obj[t].progress = 100

\* C35: activeCount is the number of startTask routines that are past the
\* increment of line 488 and before the deferred decrement of line 496; it
\* is never negative and it is 0 when no routine is left, whatever happened
\* to the tasks (paused, stopped while Pending, file found, removed).
Counted == {"starting", "resolve", "resolved", "download", "defer"}

C36_CompletedMeansDone ==
    \A p \in Targets :
        pl[p].status = PlaylistStatusCompleted =>
            /\ NonFinishedOf(p) = {}
            /\ \A i \in DOMAIN pl[p].videos :
                   pl[p].videos[i].status # VideoStatusDownloading

\* C37: once CancelPlaylist has set a playlist to Error, no step of the
\* processing routine sets it to Completed, and no download task is created
\* for one of its videos any more.
C37_CancelStep ==
    \A p \in Targets :
        pl[p].status = PlaylistStatusError =>
            /\ pl'[p].status # PlaylistStatusCompleted
            /\ \A v \in vids \ vids' : v.pl = p => Len(obj') = Len(obj)

C37_CancelHolds == [][C37_CancelStep]_vars

\* C38: at most one processPlaylist routine runs for a playlist, no video of
\* a playlist is handed to AddTask twice, also when AddPlaylist found the
\* queue full and DownloadPlaylist is called afterwards.
C38_OneRoutinePerPlaylist ==
    /\ \A k1, k2 \in procs : k1 # k2 => k1.pl # k2.pl
    /\ \A v1, v2 \in vids : v1 # v2 => <<v1.pl, v1.idx>> # <<v2.pl, v2.idx>>
    /\ \A m1, m2 \in pmons : m1 # m2 => <<m1.pl, m1.idx>> # <<m2.pl, m2.idx>>

\* C39: the stop-monitor of a run ends once that run has ended, whatever the
\* final status; when a later run of the task enters startTask no monitor
\* of an earlier run, whose startTask has returned, is still polling.
C39_EnterStep ==
    ret'.op = "startTask.enter" => ret'.id \notin orphans

C39_MonitorsEnd == [][C39_EnterStep]_vars

\* C40: after any sequence of addMeasurement, calculateSmoothedValues and
\* clearMeasurements calls the speed slice and the percent slice have the
\* same length, at most 10, and hold the most recent samples that arrived
\* since the last clear, in arrival order (the oldest is the one dropped).
C40_RecentSamples ==
    \A i \in DOMAIN buf :
        LET ss == buf[i]
            n == Len(ss.arrived)
            k == Min(n, 10)
        IN  /\ Len(ss.speedMeasurements) = Len(ss.percentMeasurements)
            /\ Len(ss.speedMeasurements) <= 10
            /\ Len(ss.speedMeasurements) = k
            /\ \A j \in 1..k :
                /\ ss.speedMeasurements[j] = ss.arrived[n - k + j].speed
                /\ ss.percentMeasurements[j] = ss.arrived[n - k + j].percent

\* more than ten samples arrived, the dropped first one differs from the
\* oldest one kept, and the means were computed on the full buffer
C40_Witness ==
    /\ buf # <<>>
    /\ Len(buf[1].arrived) > 10
    /\ buf[1].arrived[1] # buf[1].arrived[Len(buf[1].arrived) - 9]
    /\ Len(buf[1].speedMeasurements) = 10
    /\ ret.op = "calculateSmoothedValues"

====
